---- MODULE Spec2Model ----
(***************************************************************************)
(* Board_Games: the Board / UI / GameManager framework and its thirteen    *)
(* rule variants.  The board objects are modelled field by field; every    *)
(* variant's update_board is an operator from an object state and a Move   *)
(* to the SET of outcomes the call can have (more than one where the code  *)
(* draws rand() or reads outside the grid).                                *)
(***************************************************************************)
EXTENDS Integers, Sequences, FiniteSets, TLC

VARIABLES
    variant,        \* which Board subclass the menu instantiated
    file,           \* word_XO_Board::file: "unopened", "failed" (open did not
                    \*   succeed) or "closed" (read and closed); "none" on the
                    \*   boards that have no such member
    board,          \* Board<T>::board, a function <<row, col>> -> cell
    n_moves,        \* Board<T>::n_moves
    Coordinates,    \* Inf_XO_Board::Coordinates (deque of pairs)
    coordinates,    \* obs_TicTacToe_board::coordinates (vector of pairs)
    last_row_play,  \* SUS_Board / obs_TicTacToe_board
    last_col_play,
    count1,         \* SUS_Board::count1
    count2,         \* SUS_Board::count2
    mark,           \* XO_4x4_Board::mark
    xold,           \* XO_4x4_Board::xold
    yold,           \* XO_4x4_Board::yold
    winners,        \* UltimateTicTacToe::winners
    cntX,           \* TicTacToe_5x5_board::cntX
    cntO,           \* TicTacToe_5x5_board::cntO
    oob,            \* an element outside the grid has been read or written
    last_move,      \* the Move of the most recent update_board call
    ret,            \* what that call returned: "none", "true", "false", "crash"
    prev_n_moves,   \* n_moves when that call was entered
    placed,         \* calls that took a placement branch so far
    undone,         \* calls that took an erase branch so far
    calls,          \* update_board calls made so far
    deleted,        \* set_up: the objects it has deleted so far, in order
    gm_pc,          \* GameManager::run: "off" (no manager), "menu" (the board is
                    \*   not constructed yet), "get_move" (in the loop),
                    \*   "done" (run returned) or "fault" (the process died)
    current_player_index,   \* GameManager: whose turn it is
    ptype,          \* Player::type of players[0] and players[1]
    move,           \* the Move get_move returned, until update_board took it
    gm_ret,         \* what GameManager's last update_board call returned
    asked,          \* the player the last get_move request was made for
    movers,         \* the players of the accepted moves, in order
    rejected,       \* moves of this run that update_board refused
    outcome,        \* what was announced: "none", "win", "lose", "draw", or the
                    \*   what() of an exception nobody caught
    nums,           \* Numerical_XO_UI::nums
    snap            \* the program state right after the first accepted move

boardVars == <<board, n_moves, Coordinates, coordinates, last_row_play,
               last_col_play, count1, count2, mark, xold, yold, winners,
               cntX, cntO>>
callVars == <<oob, last_move, ret, prev_n_moves, placed, undone, calls>>
gmVars == <<gm_pc, current_player_index, ptype, move, gm_ret, asked, movers,
           rejected, outcome, nums, snap>>
vars == <<variant, file, deleted, boardVars, callVars, gmVars>>

----------------------------------------------------------------------------
(* Bounds of the exploration. *)
MaxRow == 1         \* in-range rows that callers and humans name: 0..MaxRow
MaxCol == 2         \* in-range columns that callers and humans name: 0..MaxCol
MaxCalls == 2       \* update_board calls per run of the board harness
MaxRand  == 1       \* rand() % n is drawn from 0..Min(n-1, MaxRand)
MaxTurns == 5       \* accepted moves per run of GameManager
MaxRejects == 1     \* refused moves per run of GameManager
MaxDigit == 4       \* digits offered in the numerical game: 1..MaxDigit

----------------------------------------------------------------------------
(* Characters.  NUL is char 0, the erase marker; SOH is char 1. *)
NUL == "NUL"
SOH == "SOH"

Variants == {"Memory", "Inf", "obs", "CONNECT", "word", "SUS", "XO_4x4",
             "TicTacToe_5x5", "Numerical", "Pyramid", "Inverse",
             "Ultimate", "Diamond"}

\* Board(rows, columns) as passed by each constructor
Rows(v) ==
    CASE v \in {"Memory", "Inf", "word", "SUS", "Numerical", "Pyramid", "Inverse"} -> 3
      [] v = "XO_4x4" -> 4
      [] v \in {"TicTacToe_5x5", "Diamond"} -> 5
      [] v \in {"obs", "CONNECT"} -> 6
      [] v = "Ultimate" -> 9

Columns(v) ==
    CASE v \in {"Memory", "Inf", "word", "SUS", "Numerical", "Inverse"} -> 3
      [] v = "XO_4x4" -> 4
      [] v \in {"TicTacToe_5x5", "Diamond", "Pyramid"} -> 5
      [] v = "obs" -> 6
      [] v = "CONNECT" -> 7
      [] v = "Ultimate" -> 9

\* blank_symbol ('.') or the default empty_cell argument (' ')
blank_symbol(v) == IF v \in {"Inverse", "Ultimate", "Diamond"} THEN " " ELSE "."

obstacle_symbol == "#"

Cells(v) == (0 .. Rows(v) - 1) \X (0 .. Columns(v) - 1)

InGrid(v, x, y) == ~(x < 0 \/ x >= Rows(v) \/ y < 0 \/ y >= Columns(v))

\* <cctype> toupper on the characters the model uses
toupper(c) ==
    CASE c = "x" -> "X"
      [] c = "o" -> "O"
      [] c = "s" -> "S"
      [] c = "u" -> "U"
      [] c = "a" -> "A"
      [] c = "t" -> "T"
      [] OTHER -> c

Min(a, b) == IF a < b THEN a ELSE b

\* vector::erase(begin() + i) / deque::pop_front, on 1-based sequences
RemoveAt(s, i) == [k \in 1 .. Len(s) - 1 |-> IF k < i THEN s[k] ELSE s[k + 1]]

\* std::find: the first index holding e, or 0 for end()
RECURSIVE FindFrom(_, _, _)
FindFrom(s, e, i) ==
    IF i > Len(s) THEN 0
    ELSE IF s[i] = e THEN i
    ELSE FindFrom(s, e, i + 1)

Find(s, e) == FindFrom(s, e, 1)

----------------------------------------------------------------------------
(* Construction. *)

\* XO_4x4_Board::XO_4x4_Board: rows 0 and 3 hold the eight tokens
Grid_4x4 ==
    [p \in Cells("XO_4x4") |->
        IF p[1] = 0 THEN (IF p[2] % 2 = 0 THEN "O" ELSE "X")
        ELSE IF p[1] = 3 THEN (IF p[2] % 2 = 1 THEN "O" ELSE "X")
        ELSE "."]

Construct(v) ==
    [board         |-> IF v = "XO_4x4" THEN Grid_4x4 ELSE ([p \in Cells(v) |-> blank_symbol(v)]),
     n_moves       |-> 0,
     Coordinates   |-> <<>>,
     coordinates   |-> IF v = "obs"
                       THEN [k \in 1 .. 36 |-> <<(k - 1) \div 6, (k - 1) % 6>>]
                       ELSE <<>>,
     last_row_play |-> 0,
     last_col_play |-> 0,
     count1        |-> 0,
     count2        |-> 0,
     mark          |-> SOH,
     xold          |-> 4,
     yold          |-> 4,
     winners       |-> ([p \in (0 .. 2) \X (0 .. 2) |-> " "]),
     cntX          |-> 0,
     cntO          |-> 0]

----------------------------------------------------------------------------
(* update_board.  An outcome is the object state after the call, what the  *)
(* call returned, whether it touched memory outside the grid, and which    *)
(* branch it took ("place", "erase" or "none").                            *)

Out(s, r, o, b) == [s |-> s, ret |-> r, oob |-> o, branch |-> b]

\* place_or_undo with an undo that forgets to take the move off the count
place_or_undo_uncounted(v, s, m) ==
    LET x == m.x
        y == m.y
        mk == m.symbol
    IN  IF InGrid(v, x, y) /\ (s.board[<<x, y>>] = "." \/ mk = NUL)
        THEN IF mk = NUL
             THEN {Out([s EXCEPT !.board[<<x, y>>] = "."], "true", FALSE, "erase")}
             ELSE {Out([s EXCEPT !.n_moves = @ + 1, !.board[<<x, y>>] = toupper(mk)],
                       "true", FALSE, "place")}
        ELSE {Out(s, "false", FALSE, "none")}

\* the body shared by the '.'-boards: bounds, blank-or-erase, then write
place_or_undo(v, s, m) ==
    LET x == m.x
        y == m.y
        mk == m.symbol
    IN  IF InGrid(v, x, y) /\ (s.board[<<x, y>>] = "." \/ mk = NUL)
        THEN IF mk = NUL
             THEN {Out([s EXCEPT !.n_moves = @ - 1, !.board[<<x, y>>] = "."],
                       "true", FALSE, "erase")}
             ELSE {Out([s EXCEPT !.n_moves = @ + 1, !.board[<<x, y>>] = toupper(mk)],
                       "true", FALSE, "place")}
        ELSE {Out(s, "false", FALSE, "none")}

\* CONNECT_Board::update_board: the range test returns early
update_board_CONNECT(s, m) ==
    LET x == m.x
        y == m.y
        mk == m.symbol
    IN  IF x < 0 \/ x >= 6 \/ y < 0 \/ y >= 7
        THEN {Out(s, "false", FALSE, "none")}
        ELSE IF s.board[<<x, y>>] = "." \/ mk = NUL
             THEN IF mk = NUL
                  THEN {Out([s EXCEPT !.n_moves = @ - 1, !.board[<<x, y>>] = "."],
                            "true", FALSE, "erase")}
                  ELSE {Out([s EXCEPT !.n_moves = @ + 1, !.board[<<x, y>>] = toupper(mk)],
                            "true", FALSE, "place")}
             ELSE {Out(s, "false", FALSE, "none")}

\* Inf_XO_Board::update_board: the pair is recorded before it is validated;
\* after every third accepted move the cell at the front of the deque is
\* blanked.  A front pair outside the grid makes that write undefined: the
\* process dies, or some other memory is overwritten and the grid is not.
update_board_Inf(s, m) ==
    LET x == m.x
        y == m.y
        mk == m.symbol
        s0 == [s EXCEPT !.Coordinates = Append(@, <<x, y>>)]
    IN  IF InGrid("Inf", x, y) /\ (s0.board[<<x, y>>] = "." \/ mk = NUL)
        THEN LET s1 == IF mk = NUL
                       THEN [s0 EXCEPT !.n_moves = @ - 1, !.board[<<x, y>>] = "."]
                       ELSE [s0 EXCEPT !.n_moves = @ + 1, !.board[<<x, y>>] = toupper(mk)]
                 br == IF mk = NUL THEN "erase" ELSE "place"
                 front == s1.Coordinates[1]
             IN  IF s1.n_moves > 1 /\ (s1.n_moves - 1) % 3 = 0
                 THEN IF InGrid("Inf", front[1], front[2])
                      THEN {Out([s1 EXCEPT !.board[front] = ".",
                                           !.Coordinates = Tail(@)],
                                "true", FALSE, br)}
                      ELSE {Out([s1 EXCEPT !.Coordinates = Tail(@)], "true", TRUE, br),
                            Out(s1, "crash", TRUE, br)}
                 ELSE {Out(s1, "true", FALSE, br)}
        ELSE {Out(s0, "false", FALSE, "none")}

random_obs_once(s) ==
    IF Len(s.coordinates) = 0 THEN {s}
    ELSE {[s EXCEPT !.board[s.coordinates[i]] = obstacle_symbol,
                    !.coordinates = RemoveAt(@, i)] :
            i \in (1 .. Min((Len(s.coordinates)), MaxRand + 1))}

\* random_obs that stops after one round
random_obs_one_round(s) == random_obs_once(s)

\* obs_TicTacToe_board::random_obs: two rounds
random_obs(s) == UNION {random_obs_once(t) : t \in random_obs_once(s)}

\* obs_TicTacToe_board::update_board
update_board_obs(s, m) ==
    LET x == m.x
        y == m.y
        mk == m.symbol
    IN  IF InGrid("obs", x, y) /\ (s.board[<<x, y>>] = "." \/ mk = NUL)
        THEN IF mk = NUL
             THEN {Out([s EXCEPT !.n_moves = @ - 1, !.board[<<x, y>>] = "."],
                       "true", FALSE, "erase")}
             ELSE LET s1 == [s EXCEPT !.n_moves = @ + 1,
                                      !.board[<<x, y>>] = toupper(mk)]
                      it == Find(s1.coordinates, <<x, y>>)
                      s2 == IF it # 0
                            THEN [s1 EXCEPT !.coordinates = RemoveAt(@, it)]
                            ELSE s1
                  IN  {Out([t EXCEPT !.last_row_play = x, !.last_col_play = y],
                           "true", FALSE, "place") : t \in random_obs(s2)}
        ELSE {Out(s, "false", FALSE, "none")}

\* SUS_Board::condition: the lines through (x, y) that now read S-U-S score
\* for 'S' (count1) or for any other symbol (count2)
SUSWord(b, ps) == [k \in 1 .. 3 |-> b[ps[k]]]

\* condition that credits every line to count1
condition_credits_S(s, x, y, symbol) ==
    LET b == s.board
        hits == (IF SUSWord(b, <<<<x, 0>>, <<x, 1>>, <<x, 2>>>>) = <<"S", "U", "S">>
                 THEN 1 ELSE 0)
              + (IF SUSWord(b, <<<<0, y>>, <<1, y>>, <<2, y>>>>) = <<"S", "U", "S">>
                 THEN 1 ELSE 0)
              + (IF x = y /\ SUSWord(b, <<<<0, 0>>, <<1, 1>>, <<2, 2>>>>) = <<"S", "U", "S">>
                 THEN 1 ELSE 0)
              + (IF x + y = 2 /\ SUSWord(b, <<<<0, 2>>, <<1, 1>>, <<2, 0>>>>) = <<"S", "U", "S">>
                 THEN 1 ELSE 0)
    IN  [s EXCEPT !.count1 = @ + hits]

condition(s, x, y, symbol) ==
    LET b == s.board
        hits == (IF SUSWord(b, <<<<x, 0>>, <<x, 1>>, <<x, 2>>>>) = <<"S", "U", "S">>
                 THEN 1 ELSE 0)
              + (IF SUSWord(b, <<<<0, y>>, <<1, y>>, <<2, y>>>>) = <<"S", "U", "S">>
                 THEN 1 ELSE 0)
              + (IF x = y /\ SUSWord(b, <<<<0, 0>>, <<1, 1>>, <<2, 2>>>>) = <<"S", "U", "S">>
                 THEN 1 ELSE 0)
              + (IF x + y = 2 /\ SUSWord(b, <<<<0, 2>>, <<1, 1>>, <<2, 0>>>>) = <<"S", "U", "S">>
                 THEN 1 ELSE 0)
    IN  IF symbol = "S"
        THEN [s EXCEPT !.count1 = @ + hits]
        ELSE [s EXCEPT !.count2 = @ + hits]

\* SUS_Board::update_board
update_board_SUS(s, m) ==
    LET x == m.x
        y == m.y
        mk == m.symbol
    IN  IF InGrid("SUS", x, y) /\ (s.board[<<x, y>>] = "." \/ mk = NUL)
        THEN IF mk = NUL
             THEN {Out([s EXCEPT !.n_moves = @ - 1, !.board[<<x, y>>] = "."],
                       "true", FALSE, "erase")}
             ELSE {Out(condition([s EXCEPT !.last_row_play = x,
                                           !.last_col_play = y,
                                           !.n_moves = @ + 1,
                                           !.board[<<x, y>>] = toupper(mk)],
                                 x, y, toupper(mk)),
                       "true", FALSE, "place")}
        ELSE {Out(s, "false", FALSE, "none")}

\* XO_4x4_Board::update_board, after the cell has been read as g: lift the
\* token (g is the move's symbol), or drop the lifted token on a blank cell
\* next to where it was lifted, or refuse; then the usual bounds test and
\* write, driven by the member mark
update_4x4_with(s, m, g, inside) ==
    LET x == m.x
        y == m.y
        adjacent == \/ (x = s.xold + 1 /\ y = s.yold)
                    \/ (x = s.xold - 1 /\ y = s.yold)
                    \/ (y = s.yold + 1 /\ x = s.xold)
                    \/ (y = s.yold - 1 /\ x = s.xold)
        lift == m.symbol = g
        drop == ~lift /\ g = "." /\ s.mark = NUL /\ adjacent
        s1 == IF lift THEN [s EXCEPT !.mark = NUL, !.xold = x, !.yold = y]
              ELSE [s EXCEPT !.mark = m.symbol]
    IN  IF ~lift /\ ~drop
        THEN Out(s, "false", ~inside, "none")
        ELSE IF inside /\ (s1.board[<<x, y>>] = "." \/ s1.mark = NUL)
             THEN IF s1.mark = NUL
                  THEN Out([s1 EXCEPT !.n_moves = @ - 1, !.board[<<x, y>>] = "."],
                           "true", FALSE, "erase")
                  ELSE Out([s1 EXCEPT !.n_moves = @ + 1,
                                      !.board[<<x, y>>] = toupper(s1.mark)],
                           "true", FALSE, "place")
             ELSE Out(s1, "false", ~inside, "none")

\* XO_4x4_Board::update_board: board[x][y] is read before any bounds test,
\* so outside the grid the call dies or goes on with whatever it read
update_board_4x4(s, m) ==
    IF InGrid("XO_4x4", m.x, m.y)
    THEN {update_4x4_with(s, m, s.board[<<m.x, m.y>>], TRUE)}
    ELSE {update_4x4_with(s, m, g, FALSE) : g \in ({m.symbol, ".", "?"})}
         \cup {Out(s, "crash", TRUE, "none")}

\* InverseTicTacToe::update_board: no erase branch, any symbol is written
update_board_Inverse(s, m) ==
    LET x == m.x
        y == m.y
        sym == m.symbol
    IN  IF x < 0 \/ x >= 3 \/ y < 0 \/ y >= 3
        THEN {Out(s, "false", FALSE, "none")}
        ELSE IF s.board[<<x, y>>] # " "
             THEN {Out(s, "false", FALSE, "none")}
             ELSE {Out([s EXCEPT !.board[<<x, y>>] = sym, !.n_moves = @ + 1],
                       "true", FALSE, "place")}

\* the three-cell lines of a 3x3 block whose top-left corner is (br, bc)
Lines3x3(br, bc) ==
    {<<<<br + r, bc>>, <<br + r, bc + 1>>, <<br + r, bc + 2>>>> : r \in 0 .. 2}
    \cup {<<<<br, bc + c>>, <<br + 1, bc + c>>, <<br + 2, bc + c>>>> : c \in 0 .. 2}
    \cup {<<<<br, bc>>, <<br + 1, bc + 1>>, <<br + 2, bc + 2>>>>,
          <<<<br, bc + 2>>, <<br + 1, bc + 1>>, <<br + 2, bc>>>>}

\* the lines of a sub-board without the two diagonals
SmallLineOrder_no_diagonals(br, bc) ==
    <<<<<<br, bc>>, <<br, bc + 1>>, <<br, bc + 2>>>>,
      <<<<br + 1, bc>>, <<br + 1, bc + 1>>, <<br + 1, bc + 2>>>>,
      <<<<br + 2, bc>>, <<br + 2, bc + 1>>, <<br + 2, bc + 2>>>>,
      <<<<br, bc>>, <<br + 1, bc>>, <<br + 2, bc>>>>,
      <<<<br, bc + 1>>, <<br + 1, bc + 1>>, <<br + 2, bc + 1>>>>,
      <<<<br, bc + 2>>, <<br + 1, bc + 2>>, <<br + 2, bc + 2>>>>>>

\* the order in which check_and_set_small_winner tries them
SmallLineOrder(br, bc) ==
    <<<<<<br, bc>>, <<br, bc + 1>>, <<br, bc + 2>>>>,
      <<<<br + 1, bc>>, <<br + 1, bc + 1>>, <<br + 1, bc + 2>>>>,
      <<<<br + 2, bc>>, <<br + 2, bc + 1>>, <<br + 2, bc + 2>>>>,
      <<<<br, bc>>, <<br + 1, bc>>, <<br + 2, bc>>>>,
      <<<<br, bc + 1>>, <<br + 1, bc + 1>>, <<br + 2, bc + 1>>>>,
      <<<<br, bc + 2>>, <<br + 1, bc + 2>>, <<br + 2, bc + 2>>>>,
      <<<<br, bc>>, <<br + 1, bc + 1>>, <<br + 2, bc + 2>>>>,
      <<<<br, bc + 2>>, <<br + 1, bc + 1>>, <<br + 2, bc>>>>>>

\* UltimateTicTacToe::check_and_set_small_winner: the first complete line
\* found gives the sub-board to the symbol on it; 0 when there is none
RECURSIVE FirstFullLine(_, _, _)
FirstFullLine(b, ls, i) ==
    IF i > Len(ls) THEN 0
    ELSE IF b[ls[i][1]] # " " /\ b[ls[i][1]] = b[ls[i][2]] /\ b[ls[i][1]] = b[ls[i][3]]
         THEN i
         ELSE FirstFullLine(b, ls, i + 1)

\* check_and_set_small_winner that finds the lines but sets no meta-mark
check_and_set_small_winner_unset(s, br, bc) == s

check_and_set_small_winner(s, br, bc) ==
    LET ls == SmallLineOrder(br * 3, bc * 3)
        i == FirstFullLine(s.board, ls, 1)
    IN  IF i = 0 THEN s
        ELSE [s EXCEPT !.winners[<<br, bc>>] = s.board[ls[i][1]]]

\* small_board_full that never finds a sub-board full
small_board_full_never(s, br, bc) == FALSE

\* UltimateTicTacToe::small_board_full
small_board_full(s, br, bc) ==
    \A r \in 0 .. 2, c \in 0 .. 2 : s.board[<<br * 3 + r, bc * 3 + c>>] # " "

\* update_board without the test of the sub-board's meta-mark
update_board_Ultimate_any_subboard(s, m) ==
    LET x == m.x
        y == m.y
        sym == m.symbol
        br == x \div 3
        bc == y \div 3
    IN  IF x < 0 \/ x >= 9 \/ y < 0 \/ y >= 9
        THEN {Out(s, "false", FALSE, "none")}
        ELSE IF s.board[<<x, y>>] # " "
        THEN {Out(s, "false", FALSE, "none")}
        ELSE LET s1 == [s EXCEPT !.board[<<x, y>>] = sym, !.n_moves = @ + 1]
                 s2 == check_and_set_small_winner(s1, br, bc)
             IN  IF s2 # s1
                 THEN {Out(s2, "true", FALSE, "place")}
                 ELSE IF small_board_full(s1, br, bc)
                      THEN {Out([s1 EXCEPT !.winners[<<br, bc>>] = "D"],
                                "true", FALSE, "place")}
                      ELSE {Out(s1, "true", FALSE, "place")}

\* UltimateTicTacToe::update_board
update_board_Ultimate(s, m) ==
    LET x == m.x
        y == m.y
        sym == m.symbol
        br == x \div 3
        bc == y \div 3
    IN  IF x < 0 \/ x >= 9 \/ y < 0 \/ y >= 9
        THEN {Out(s, "false", FALSE, "none")}
        ELSE IF s.board[<<x, y>>] # " "
        THEN {Out(s, "false", FALSE, "none")}
        ELSE IF s.winners[<<br, bc>>] # " "
        THEN {Out(s, "false", FALSE, "none")}
        ELSE LET s1 == [s EXCEPT !.board[<<x, y>>] = sym, !.n_moves = @ + 1]
                 s2 == check_and_set_small_winner(s1, br, bc)
             IN  IF s2 # s1
                 THEN {Out(s2, "true", FALSE, "place")}
                 ELSE IF small_board_full(s1, br, bc)
                      THEN {Out([s1 EXCEPT !.winners[<<br, bc>>] = "D"],
                                "true", FALSE, "place")}
                      ELSE {Out(s1, "true", FALSE, "place")}

\* DiamondTicTacToe::is_valid_cell
Abs(n) == IF n < 0 THEN -n ELSE n

is_valid_cell(r, c) == Abs(r - 2) + Abs(c - 2) <= 2

\* DiamondTicTacToe::update_board
update_board_Diamond(s, m) ==
    LET x == m.x
        y == m.y
        sym == m.symbol
    IN  IF x < 0 \/ x >= 5 \/ y < 0 \/ y >= 5
        THEN {Out(s, "false", FALSE, "none")}
        ELSE IF ~is_valid_cell(x, y)
        THEN {Out(s, "false", FALSE, "none")}
        ELSE IF s.board[<<x, y>>] # " "
        THEN {Out(s, "false", FALSE, "none")}
        ELSE {Out([s EXCEPT !.board[<<x, y>>] = sym, !.n_moves = @ + 1],
                  "true", FALSE, "place")}

\* the virtual call Board<T>::update_board
update_board(v, s, m) ==
    CASE v = "Memory" -> place_or_undo("Memory", s, m)
      [] v = "Inf" -> update_board_Inf(s, m)
      [] v = "obs" -> update_board_obs(s, m)
      [] v = "CONNECT" -> update_board_CONNECT(s, m)
      [] v = "word" -> place_or_undo("word", s, m)
      [] v = "SUS" -> update_board_SUS(s, m)
      [] v = "XO_4x4" -> update_board_4x4(s, m)
      [] v = "TicTacToe_5x5" -> place_or_undo("TicTacToe_5x5", s, m)
      [] v = "Numerical" -> place_or_undo("Numerical", s, m)
      [] v = "Pyramid" -> place_or_undo("Pyramid", s, m)
      [] v = "Inverse" -> update_board_Inverse(s, m)
      [] v = "Ultimate" -> update_board_Ultimate(s, m)
      [] v = "Diamond" -> update_board_Diamond(s, m)

----------------------------------------------------------------------------
(* The board object as a record, and back. *)

Obj ==
    [board         |-> board,
     n_moves       |-> n_moves,
     Coordinates   |-> Coordinates,
     coordinates   |-> coordinates,
     last_row_play |-> last_row_play,
     last_col_play |-> last_col_play,
     count1        |-> count1,
     count2        |-> count2,
     mark          |-> mark,
     xold          |-> xold,
     yold          |-> yold,
     winners       |-> winners,
     cntX          |-> cntX,
     cntO          |-> cntO]

SetObj(s) ==
    /\ board' = s.board
    /\ n_moves' = s.n_moves
    /\ Coordinates' = s.Coordinates
    /\ coordinates' = s.coordinates
    /\ last_row_play' = s.last_row_play
    /\ last_col_play' = s.last_col_play
    /\ count1' = s.count1
    /\ count2' = s.count2
    /\ mark' = s.mark
    /\ xold' = s.xold
    /\ yold' = s.yold
    /\ winners' = s.winners
    /\ cntX' = s.cntX
    /\ cntO' = s.cntO

InitObj(v) ==
    LET s == Construct(v)
    IN  /\ board = s.board
        /\ n_moves = s.n_moves
        /\ Coordinates = s.Coordinates
        /\ coordinates = s.coordinates
        /\ last_row_play = s.last_row_play
        /\ last_col_play = s.last_col_play
        /\ count1 = s.count1
        /\ count2 = s.count2
        /\ mark = s.mark
        /\ xold = s.xold
        /\ yold = s.yold
        /\ winners = s.winners
        /\ cntX = s.cntX
        /\ cntO = s.cntO

\* word_XO_Board::file once the constructor has returned
InitFile(v) == file = IF v = "word" THEN "closed" ELSE "none"

NoMove == [x |-> 0, y |-> 0, symbol |-> "-"]

InitCall ==
    /\ oob = FALSE
    /\ last_move = NoMove
    /\ ret = "none"
    /\ prev_n_moves = 0
    /\ placed = 0
    /\ undone = 0
    /\ calls = 0

\* one update_board call and its bookkeeping
Apply(m, o) ==
    /\ SetObj(o.s)
    /\ oob' = (oob \/ o.oob)
    /\ last_move' = m
    /\ ret' = o.ret
    /\ prev_n_moves' = n_moves
    /\ placed' = IF o.ret = "true" /\ o.branch = "place" THEN placed + 1 ELSE placed
    /\ undone' = IF o.ret = "true" /\ o.branch = "erase" THEN undone + 1 ELSE undone
    /\ calls' = calls + 1

----------------------------------------------------------------------------
(* The board on its own: any caller, any sequence of update_board calls.   *)
(* The pairs proposed are the cells of a window in the top left corner of  *)
(* the grid, one pair below the last row and one pair left of column 0.    *)

Positions(v) ==
    ((0 .. Min(MaxRow, Rows(v) - 1)) \X (0 .. Min(MaxCol, Columns(v) - 1)))
        \cup {<<Rows(v), 0>>, <<0, -1>>}

SymbolPool == {"X", "o", NUL}

Mv(x, y, sym) == [x |-> x, y |-> y, symbol |-> sym]

\* no GameManager is running
GMOff ==
    /\ gm_pc = "off"
    /\ current_player_index = 0
    /\ ptype = <<"HUMAN", "HUMAN">>
    /\ move = NoMove
    /\ gm_ret = "none"
    /\ asked = -1
    /\ movers = <<>>
    /\ rejected = 0
    /\ outcome = "none"
    /\ nums = <<>>
    /\ snap = <<>>

InitBoard ==
    /\ variant \in Variants
    /\ InitObj(variant)
    /\ InitFile(variant)
    /\ InitCall
    /\ deleted = <<>>
    /\ GMOff

Call ==
    /\ calls < MaxCalls
    /\ ret # "crash"
    /\ \E m \in ({Mv(p[1], p[2], sym) : p \in Positions(variant), sym \in SymbolPool}) :
         \E o \in update_board(variant, Obj, m) : Apply(m, o)
    /\ UNCHANGED <<variant, file, deleted, gmVars>>

NextBoard == Call

SpecBoard == InitBoard /\ [][NextBoard]_vars

----------------------------------------------------------------------------
(* The terminal-state queries.  A player is an index 0 or 1; sym is the    *)
(* symbol of the Player object handed to the query.                        *)

\* the lambda all_equal of the line-completion boards
all_equal(a, b, c) == a = b /\ b = c /\ a # "."

\* is_win without the test of the diagonal from (0,2) to (2,0)
is_win_Memory_one_diagonal(s, sym) ==
    LET b == s.board
    IN  \/ \E i \in 0 .. 2 :
             \/ all_equal(b[<<i, 0>>], b[<<i, 1>>], b[<<i, 2>>]) /\ b[<<i, 0>>] = sym
             \/ all_equal(b[<<0, i>>], b[<<1, i>>], b[<<2, i>>]) /\ b[<<0, i>>] = sym
        \/ all_equal(b[<<0, 0>>], b[<<1, 1>>], b[<<2, 2>>]) /\ b[<<1, 1>>] = sym

\* Memory_Board::is_win
is_win_Memory(s, sym) ==
    LET b == s.board
    IN  \/ \E i \in 0 .. 2 :
             \/ all_equal(b[<<i, 0>>], b[<<i, 1>>], b[<<i, 2>>]) /\ b[<<i, 0>>] = sym
             \/ all_equal(b[<<0, i>>], b[<<1, i>>], b[<<2, i>>]) /\ b[<<0, i>>] = sym
        \/ all_equal(b[<<0, 0>>], b[<<1, 1>>], b[<<2, 2>>]) /\ b[<<1, 1>>] = sym
        \/ all_equal(b[<<0, 2>>], b[<<1, 1>>], b[<<2, 0>>]) /\ b[<<1, 1>>] = sym

\* Inf_XO_Board::is_win
is_win_Inf(s, sym) ==
    LET b == s.board
    IN  \/ \E i \in 0 .. 2 :
             \/ all_equal(b[<<i, 0>>], b[<<i, 1>>], b[<<i, 2>>]) /\ b[<<i, 0>>] = sym
             \/ all_equal(b[<<0, i>>], b[<<1, i>>], b[<<2, i>>]) /\ b[<<0, i>>] = sym
        \/ all_equal(b[<<0, 0>>], b[<<1, 1>>], b[<<2, 2>>]) /\ b[<<1, 1>>] = sym
        \/ all_equal(b[<<0, 2>>], b[<<1, 1>>], b[<<2, 0>>]) /\ b[<<1, 1>>] = sym

\* Pyramid_XO_Board::is_win
is_win_Pyramid(s, sym) ==
    LET b == s.board
    IN  \/ all_equal(b[<<1, 1>>], b[<<1, 2>>], b[<<1, 3>>]) /\ b[<<1, 1>>] = sym
        \/ all_equal(b[<<0, 2>>], b[<<1, 2>>], b[<<2, 2>>]) /\ b[<<0, 2>>] = sym
        \/ \E i \in 0 .. 2 :
             all_equal(b[<<2, i>>], b[<<2, i + 1>>], b[<<2, i + 2>>]) /\ b[<<2, i>>] = sym
        \/ all_equal(b[<<0, 2>>], b[<<1, 3>>], b[<<2, 4>>]) /\ b[<<0, 2>>] = sym
        \/ all_equal(b[<<0, 2>>], b[<<1, 1>>], b[<<2, 0>>]) /\ b[<<1, 1>>] = sym

\* XO_4x4_Board::is_win
is_win_4x4(s, sym) ==
    LET b == s.board
    IN  \/ \E j \in 0 .. 1, i \in 0 .. 3 :
             \/ all_equal(b[<<i, j>>], b[<<i, j + 1>>], b[<<i, j + 2>>]) /\ b[<<i, j>>] = sym
             \/ all_equal(b[<<j, i>>], b[<<j + 1, i>>], b[<<j + 2, i>>]) /\ b[<<j, i>>] = sym
        \/ all_equal(b[<<0, 0>>], b[<<1, 1>>], b[<<2, 2>>]) /\ b[<<1, 1>>] = sym
        \/ all_equal(b[<<0, 2>>], b[<<1, 1>>], b[<<2, 0>>]) /\ b[<<1, 1>>] = sym
        \/ all_equal(b[<<1, 1>>], b[<<2, 2>>], b[<<3, 3>>]) /\ b[<<2, 2>>] = sym
        \/ all_equal(b[<<0, 1>>], b[<<1, 2>>], b[<<2, 3>>]) /\ b[<<1, 2>>] = sym
        \/ all_equal(b[<<1, 0>>], b[<<2, 1>>], b[<<3, 2>>]) /\ b[<<2, 1>>] = sym
        \/ all_equal(b[<<0, 3>>], b[<<1, 2>>], b[<<2, 1>>]) /\ b[<<1, 2>>] = sym
        \/ all_equal(b[<<1, 2>>], b[<<2, 1>>], b[<<3, 0>>]) /\ b[<<2, 1>>] = sym
        \/ all_equal(b[<<1, 3>>], b[<<2, 2>>], b[<<3, 1>>]) /\ b[<<3, 1>>] = sym

\* the character codes the sum in Numerical_XO_Board::is_win adds up
Code(c) ==
    CASE c = "1" -> 49 [] c = "2" -> 50 [] c = "3" -> 51 [] c = "4" -> 52
      [] c = "5" -> 53 [] c = "6" -> 54 [] c = "7" -> 55 [] c = "8" -> 56
      [] c = "9" -> 57 [] c = "." -> 46 [] c = "X" -> 88 [] c = "O" -> 79
      [] c = "o" -> 111 [] OTHER -> 63

sum159(b, p, q, r) ==
    /\ Code(b[p]) + Code(b[q]) + Code(b[r]) = 159
    /\ b[p] # "." /\ b[q] # "." /\ b[r] # "."

\* Numerical_XO_Board::is_win
is_win_Numerical(s, sym) ==
    LET b == s.board
    IN  \/ \E i \in 0 .. 2 :
             \/ sum159(b, <<i, 0>>, <<i, 1>>, <<i, 2>>)
             \/ sum159(b, <<0, i>>, <<1, i>>, <<2, i>>)
        \/ sum159(b, <<0, 0>>, <<1, 1>>, <<2, 2>>)
        \/ sum159(b, <<0, 2>>, <<1, 1>>, <<2, 0>>)

\* the set words, as loadWords fills it from dic.txt: every line of the
\* file as getline reads it, in the case the file has it in; here a file of
\* the two lines TAT and ata
words == {<<"T", "A", "T">>, <<"a", "t", "a">>}

\* word_XO_Board::checkinFile: the word or its reverse is in the set
checkinFile(target) ==
    LET rev == <<target[3], target[2], target[1]>>
    IN  target \in words \/ rev \in words

fullword(b, p, q, r) ==
    LET w == <<b[p], b[q], b[r]>>
    IN  (\A k \in 1 .. 3 : w[k] # ".") /\ checkinFile(w)

\* word_XO_Board::is_win
is_win_word(s, sym) ==
    LET b == s.board
    IN  \/ \E i \in 0 .. 2 :
             \/ fullword(b, <<i, 0>>, <<i, 1>>, <<i, 2>>)
             \/ fullword(b, <<0, i>>, <<1, i>>, <<2, i>>)
        \/ fullword(b, <<0, 0>>, <<1, 1>>, <<2, 2>>)
        \/ fullword(b, <<0, 2>>, <<1, 1>>, <<2, 0>>)

\* obs_TicTacToe_board::check_win: the run of sym that starts next to
\* (x, y) in direction (dr, dc)
RECURSIVE RunFrom(_, _, _, _, _, _)
RunFrom(b, r, c, dr, dc, sym) ==
    IF r >= 0 /\ r < 6 /\ c >= 0 /\ c < 6 /\ b[<<r, c>>] = sym
    THEN 1 + RunFrom(b, r + dr, c + dc, dr, dc, sym)
    ELSE 0

check_win(s, x, y, dr, dc, sym) == RunFrom(s.board, x + dr, y + dc, dr, dc, sym)

\* is_win that looks along the row of the last placement only
is_win_obs_row_only(s, sym) ==
    check_win(s, s.last_row_play, s.last_col_play, 0, -1, sym)
        + check_win(s, s.last_row_play, s.last_col_play, 0, 1, sym) + 1 >= 4

\* obs_TicTacToe_board::is_win: only the lines through the last placement
is_win_obs(s, sym) ==
    LET x == s.last_row_play
        y == s.last_col_play
    IN  \/ check_win(s, x, y, 0, -1, sym) + check_win(s, x, y, 0, 1, sym) + 1 >= 4
        \/ check_win(s, x, y, -1, 0, sym) + check_win(s, x, y, 1, 0, sym) + 1 >= 4
        \/ check_win(s, x, y, -1, -1, sym) + check_win(s, x, y, 1, 1, sym) + 1 >= 4
        \/ check_win(s, x, y, -1, 1, sym) + check_win(s, x, y, 1, -1, sym) + 1 >= 4

\* CONNECT_Board::is_win: four in a row, column or diagonal
is_win_CONNECT(s, sym) ==
    LET b == s.board
        four(p, dr, dc) == \A k \in 0 .. 3 : b[<<p[1] + k * dr, p[2] + k * dc>>] = sym
    IN  \/ \E i \in 0 .. 5, j \in 0 .. 3 : four(<<i, j>>, 0, 1)
        \/ \E j \in 0 .. 6, i \in 0 .. 2 : four(<<i, j>>, 1, 0)
        \/ \E i \in 0 .. 2, j \in 0 .. 3 : four(<<i, j>>, 1, 1)
        \/ \E i \in 0 .. 2, j \in 3 .. 6 : four(<<i, j>>, 1, -1)

\* the lines TicTacToe_5x5_board::consecutive_cells walks, in its order
Lines5x5 ==
    [i \in 1 .. 5 |-> [j \in 1 .. 5 |-> <<i - 1, j - 1>>]]
    \o [j \in 1 .. 5 |-> [i \in 1 .. 5 |-> <<i - 1, j - 1>>]]
    \o [k \in 1 .. 3 |-> [i \in 1 .. 6 - k |-> <<i - 1, (k - 1) + (i - 1)>>]]
    \o [k \in 1 .. 2 |-> [i \in 1 .. 5 - k |-> <<k + (i - 1), i - 1>>]]
    \o [k \in 1 .. 3 |-> [i \in 1 .. 6 - k |-> <<i - 1, (5 - k) - (i - 1)>>]]
    \o [k \in 1 .. 2 |-> [i \in 1 .. 5 - k |-> <<k + (i - 1), 4 - (i - 1)>>]]

\* one line of consecutive_cells: every maximal run of cnt >= 3 cells of
\* symbol adds cnt - 2
RECURSIVE RunScore(_, _, _, _, _)
RunScore(b, line, i, cnt, symbol) ==
    LET credit == IF cnt >= 3 THEN cnt - 2 ELSE 0
    IN  IF i > Len(line) THEN credit
        ELSE IF b[line[i]] = symbol
             THEN RunScore(b, line, i + 1, cnt + 1, symbol)
             ELSE credit + RunScore(b, line, i + 1, 0, symbol)

RECURSIVE SumLines(_, _, _)
SumLines(b, k, symbol) ==
    IF k > Len(Lines5x5) THEN 0
    ELSE RunScore(b, Lines5x5[k], 1, 0, symbol) + SumLines(b, k + 1, symbol)

\* TicTacToe_5x5_board::consecutive_cells: ADDS the score to cntX for 'X'
\* and to cntO for anything else
consecutive_cells(s, symbol) ==
    IF symbol = "X"
    THEN [s EXCEPT !.cntX = @ + SumLines(s.board, 1, symbol)]
    ELSE [s EXCEPT !.cntO = @ + SumLines(s.board, 1, symbol)]

\* TicTacToe_5x5_board::is_win: the state it leaves behind, and its answer
is_win_5x5_state(s) ==
    IF s.n_moves = 24
    THEN consecutive_cells(consecutive_cells(s, "X"), "O")
    ELSE s

is_win_5x5(s, sym) ==
    LET t == is_win_5x5_state(s)
    IN  s.n_moves = 24 /\ t.cntO > t.cntX

\* InverseTicTacToe::symbol_has_three_in_row
symbol_has_three_in_row(s, sym) ==
    /\ sym # " "
    /\ \E l \in Lines3x3(0, 0) : \A k \in 1 .. 3 : s.board[l[k]] = sym

\* the cells of a 3x3 grid in row-major order
RowMajor3 == [k \in 1 .. 9 |-> <<(k - 1) \div 3, (k - 1) % 3>>]

\* InverseTicTacToe::get_opponent_symbol: the first foreign symbol on the
\* board, else the other of 'X' and 'O'
RECURSIVE FirstForeign(_, _, _)
FirstForeign(b, sym, k) ==
    IF k > 9 THEN (IF sym = "X" THEN "O" ELSE "X")
    ELSE IF b[RowMajor3[k]] # sym /\ b[RowMajor3[k]] # " "
         THEN b[RowMajor3[k]]
         ELSE FirstForeign(b, sym, k + 1)

\* is_win by the rule of the plain game: the player's own three in a row
is_win_Inverse_own_line(s, sym) == symbol_has_three_in_row(s, sym)

\* InverseTicTacToe::is_win / is_lose / is_draw
is_win_Inverse(s, sym) ==
    symbol_has_three_in_row(s, (FirstForeign(s.board, sym, 1)))

is_draw_Inverse(s, sym) ==
    /\ ~symbol_has_three_in_row(s, "X")
    /\ ~symbol_has_three_in_row(s, "O")
    /\ s.n_moves >= 3 * 3

\* UltimateTicTacToe::three_in_row_winners
three_in_row_winners(s, sym) ==
    /\ sym # "D" /\ sym # " "
    /\ \E l \in Lines3x3(0, 0) : \A k \in 1 .. 3 : s.winners[l[k]] = sym

is_draw_Ultimate(s, sym) ==
    /\ ~three_in_row_winners(s, "X")
    /\ ~three_in_row_winners(s, "O")
    /\ \A p \in (0 .. 2) \X (0 .. 2) : s.winners[p] # " "

\* DiamondTicTacToe::precompute_lines: every run of len diamond cells from
\* a diamond cell in one of the four directions, with its direction
Dirs == <<<<0, 1>>, <<1, 0>>, <<1, 1>>, <<1, -1>>>>

DiamondLine(p, d, len) ==
    [k \in 1 .. len |-> <<p[1] + (k - 1) * Dirs[d][1], p[2] + (k - 1) * Dirs[d][2]>>]

DiamondLines(len) ==
    {l \in {[coords |-> DiamondLine(p, d, len), dir |-> d - 1] :
                p \in Cells("Diamond"), d \in 1 .. 4} :
        \A k \in 1 .. len :
            /\ l.coords[k][1] >= 0 /\ l.coords[k][1] < 5
            /\ l.coords[k][2] >= 0 /\ l.coords[k][2] < 5
            /\ is_valid_cell(l.coords[k][1], l.coords[k][2])}

\* DiamondTicTacToe::line_all_symbol
line_all_symbol(s, coords, sym) == \A k \in 1 .. Len(coords) : s.board[coords[k]] = sym

\* The lines precompute_lines stores in the board: computed once
lines3 == DiamondLines(3)

lines4 == DiamondLines(4)

\* symbol_has_win without the comparison of the directions
symbol_has_win_any_direction(s, sym) ==
    LET three_dirs == {l.dir : l \in {l \in lines3 : line_all_symbol(s, l.coords, sym)}}
        four_dirs == {l.dir : l \in {l \in lines4 : line_all_symbol(s, l.coords, sym)}}
    IN  three_dirs # {} /\ four_dirs # {}

\* DiamondTicTacToe::symbol_has_win: the directions of the full 3-lines and
\* of the full 4-lines, then some pair of different directions
symbol_has_win(s, sym) ==
    LET three_dirs == {l.dir : l \in {l \in lines3 : line_all_symbol(s, l.coords, sym)}}
        four_dirs == {l.dir : l \in {l \in lines4 : line_all_symbol(s, l.coords, sym)}}
    IN  \E d3 \in three_dirs, d4 \in four_dirs : d3 # d4

is_draw_Diamond(s, sym) ==
    /\ ~(s.n_moves < (Cardinality({p \in Cells("Diamond") : is_valid_cell(p[1], p[2])})))
    /\ ~symbol_has_win(s, "X")
    /\ ~symbol_has_win(s, "O")

\* the virtual calls Board<T>::is_win / is_lose / is_draw
is_win(v, s, sym) ==
    CASE v = "Memory" -> is_win_Memory(s, sym)
      [] v = "Inf" -> is_win_Inf(s, sym)
      [] v = "obs" -> is_win_obs(s, sym)
      [] v = "CONNECT" -> is_win_CONNECT(s, sym)
      [] v = "word" -> is_win_word(s, sym)
      [] v = "SUS" -> (s.n_moves = 9 /\ s.count1 > s.count2)
      [] v = "XO_4x4" -> is_win_4x4(s, sym)
      [] v = "TicTacToe_5x5" -> is_win_5x5(s, sym)
      [] v = "Numerical" -> is_win_Numerical(s, sym)
      [] v = "Pyramid" -> is_win_Pyramid(s, sym)
      [] v = "Inverse" -> is_win_Inverse(s, sym)
      [] v = "Ultimate" -> (three_in_row_winners(s, sym))
      [] v = "Diamond" -> (symbol_has_win(s, sym))

\* the object after a call of is_win: only the 5x5 board is changed by it
after_is_win(v, s) == IF v = "TicTacToe_5x5" THEN is_win_5x5_state(s) ELSE s

\* the virtual call Board<T>::is_lose: CONNECT_Board, SUS_Board,
\* TicTacToe_5x5_board, InverseTicTacToe and UltimateTicTacToe (three meta-
\* marks of get_opponent_symbol in a line); every other board answers false
is_lose(v, s, sym) ==
    CASE v = "CONNECT" -> (s.n_moves = 42 /\ ~is_win_CONNECT(s, sym))
      [] v = "SUS" -> (s.n_moves = 9 /\ s.count1 < s.count2)
      [] v = "TicTacToe_5x5" -> (s.n_moves = 24 /\ s.cntO < s.cntX)
      [] v = "Inverse" -> (symbol_has_three_in_row(s, sym))
      [] v = "Ultimate" -> (three_in_row_winners(s, (IF sym = "X" THEN "O" ELSE "X")))
      [] OTHER -> FALSE

\* the virtual call Board<T>::is_draw, board by board
is_draw(v, s, sym) ==
    CASE v = "Memory" -> (s.n_moves = 9 /\ ~is_win_Memory(s, sym))
      [] v = "Inf" -> (s.n_moves = 9 /\ ~is_win_Inf(s, sym))
      [] v = "obs" -> ((\A p \in Cells("obs") : s.board[p] # ".") /\ ~is_win_obs(s, sym))
      [] v = "CONNECT" -> (s.n_moves = 42 /\ ~is_win_CONNECT(s, sym))
      [] v = "word" -> (s.n_moves = 9 /\ ~is_win_word(s, sym))
      [] v = "SUS" -> (s.n_moves = 9 /\ s.count1 = s.count2)
      [] v = "XO_4x4" -> FALSE
      [] v = "TicTacToe_5x5" -> (s.n_moves = 24 /\ s.cntO = s.cntX)
      [] v = "Numerical" -> (s.n_moves = 9 /\ ~is_win_Numerical(s, sym))
      [] v = "Pyramid" -> (s.n_moves = 9 /\ ~is_win_Pyramid(s, sym))
      [] v = "Inverse" -> is_draw_Inverse(s, sym)
      [] v = "Ultimate" -> is_draw_Ultimate(s, sym)
      [] v = "Diamond" -> is_draw_Diamond(s, sym)

\* game_is_over that asks is_win alone on every board
game_is_over_win_only(v, s, sym) == is_win(v, s, sym)

\* game_is_over as each board writes it.  is_win is always the first
\* operand, so it has run once when the others are evaluated.
game_is_over(v, s, sym) ==
    LET t == after_is_win(v, s)
    IN  CASE v = "XO_4x4" -> is_win(v, s, sym)
          [] v \in {"SUS", "TicTacToe_5x5"} ->
                is_win(v, s, sym) \/ is_draw(v, t, sym) \/ is_lose(v, t, sym)
          [] v \in {"Inverse", "Ultimate", "Diamond"} ->
                is_win(v, s, sym) \/ is_lose(v, t, sym) \/ is_draw(v, t, sym)
          [] OTHER -> is_win(v, s, sym) \/ is_draw(v, t, sym)


----------------------------------------------------------------------------
(* The players and the moves the UIs hand to GameManager.                  *)

\* ui->setup_players() in set_up: the symbol of players[i], from
\* CONNECT_UI, SUS_UI, word_XO_UI, Numerical_XO_UI and the base UI<T>
setup_players(v, i) ==
    CASE v = "CONNECT" -> (IF i = 0 THEN "X" ELSE "O")
      [] v = "SUS" -> (IF i = 0 THEN "S" ELSE "U")
      [] v = "word" -> "-"
      [] v = "Numerical" -> (IF i = 0 THEN "O" ELSE "X")
      [] OTHER -> (IF i = 0 THEN "X" ELSE "O")

\* what rand() % n can deliver
Rand(n) == 0 .. Min(n - 1, MaxRand)

\* the get_move shared by the plain UIs: two typed integers, or two draws
get_move_xy(v, tp, sym) ==
    IF tp = "HUMAN"
    THEN {Mv(p[1], p[2], sym) : p \in Positions(v)}
    ELSE {Mv(x, y, sym) : x \in Rand(Rows(v)), y \in Rand(Columns(v))}

\* Pyramid_XO_UI::get_move: asks again while the pair is off the pyramid
get_move_Pyramid(tp, sym) ==
    {m \in get_move_xy("Pyramid", tp, sym) :
        ~((m.x = 0 /\ m.y # 2) \/ (m.x = 1 /\ (m.y = 0 \/ m.y = 4)))}

\* CONNECT_UI::get_move: a column whose top cell is free, then the lowest
\* free row of that column (-1 if there is none)
LowestFree(b, column, r) ==
    IF \E q \in 0 .. 5 : b[<<q, column>>] = "."
    THEN CHOOSE q \in 0 .. 5 :
            /\ b[<<q, column>>] = "."
            /\ \A q2 \in (q + 1) .. 5 : b[<<q2, column>>] # "."
    ELSE r

get_move_CONNECT(s, tp, sym) ==
    LET cols == IF tp = "HUMAN"
                THEN {c \in {p[2] : p \in Positions("CONNECT")} : ~(c < 0 \/ c >= 7)}
                ELSE Rand(7)
    IN  {Mv(LowestFree(s.board, c, -1), c, sym) :
            c \in {c \in cols : s.board[<<0, c>>] = "."}}

\* the letters that get typed or drawn in the word game
Letters == {"A", "T"}

\* word_XO_UI::get_move: the move carries the letter, not the player's symbol
get_move_word(tp, sym) ==
    IF tp = "HUMAN"
    THEN {Mv(p[1], p[2], l) : p \in Positions("word"), l \in Letters}
    ELSE {Mv(x, y, l) : x \in Rand(3), y \in Rand(3), l \in Letters}

\* the digit characters
Digit == <<"1", "2", "3", "4", "5", "6", "7", "8", "9">>

\* Numerical_XO_UI::get_move: a digit of the player's parity ('X' even, any
\* other symbol odd) that is not in nums yet; it goes into nums at once
get_move_Numerical(tp, sym, used) ==
    LET parity == IF sym = "X" THEN 0 ELSE 1
        free == {Digit[d] : d \in {d \in 1 .. MaxDigit :
                    d % 2 = parity /\ Find(used, Digit[d]) = 0}}
        xy == get_move_xy("Numerical", tp, sym)
    IN  {[move |-> Mv(m.x, m.y, num), nums |-> Append(used, num)] :
            m \in xy, num \in free}

\* Inverse_XO_UI::would_lose_if_move: sym on (x, y) would complete a line
would_lose_if_move(s, sym, x, y) ==
    LET cell(p) == IF p = <<x, y>> THEN sym ELSE s.board[p]
    IN  \E l \in Lines3x3(0, 0) : \A k \in 1 .. 3 : cell(l[k]) = sym

\* the cells Inverse_XO_UI takes for empty, in row-major order
all_moves(s) ==
    SelectSeq(RowMajor3, LAMBDA p : s.board[p] = "." \/ s.board[p] = " ")

\* get_move whose computer draws from all the empty cells
get_move_Inverse_any_empty(s, tp, sym) ==
    IF tp = "HUMAN"
    THEN {Mv(p[1], p[2], sym) :
            p \in {p \in Positions("Inverse") :
                     /\ ~(p[1] < 0 \/ p[1] >= 3 \/ p[2] < 0 \/ p[2] >= 3)
                     /\ (s.board[p] = "." \/ s.board[p] = " ")}}
    ELSE LET all == all_moves(s)
         IN  IF Len(all) > 0
             THEN {Mv(all[i + 1][1], all[i + 1][2], sym) : i \in Rand(Len(all))}
             ELSE {Mv(0, 0, sym)}

\* Inverse_XO_UI::get_move: a human is asked until the cell is on the
\* board and empty (a losing cell needs a "y"); the computer draws from the
\* safe cells, else from the empty ones, else answers (0, 0)
get_move_Inverse(s, tp, sym) ==
    IF tp = "HUMAN"
    THEN {Mv(p[1], p[2], sym) :
            p \in {p \in Positions("Inverse") :
                     /\ ~(p[1] < 0 \/ p[1] >= 3 \/ p[2] < 0 \/ p[2] >= 3)
                     /\ (s.board[p] = "." \/ s.board[p] = " ")}}
    ELSE LET all == all_moves(s)
             safe == SelectSeq(all, LAMBDA p : ~would_lose_if_move(s, sym, p[1], p[2]))
         IN  IF Len(safe) > 0
             THEN {Mv(safe[i + 1][1], safe[i + 1][2], sym) : i \in Rand(Len(safe))}
             ELSE IF Len(all) > 0
             THEN {Mv(all[i + 1][1], all[i + 1][2], sym) : i \in Rand(Len(all))}
             ELSE {Mv(0, 0, sym)}

\* Ultimate_UI::get_move: typed by whoever sits there, asked again while a
\* coordinate is outside 0..8; the player's type is not looked at
get_move_Ultimate(tp, sym) ==
    {Mv(p[1], p[2], sym) :
        p \in {p \in Positions("Ultimate") :
                 ~(p[1] < 0 \/ p[1] > 8 \/ p[2] < 0 \/ p[2] > 8)}}

\* Diamond_UI::get_move: any two integers, whatever the player's type
get_move_Diamond(tp, sym) ==
    {Mv(p[1], p[2], sym) : p \in Positions("Diamond")}

\* the virtual call UI<T>::get_move for the boards it leaves alone: the
\* moves it can return, each with the nums it leaves behind
get_move(v, s, tp, sym, used) ==
    LET keep(ms) == {[move |-> m, nums |-> used] : m \in ms}
    IN  CASE v = "Memory" -> keep(get_move_xy("Memory", tp, sym))
          [] v = "Inf" -> keep(get_move_xy("Inf", tp, sym))
          [] v = "obs" -> keep(get_move_xy("obs", tp, sym))
          [] v = "CONNECT" -> keep(get_move_CONNECT(s, tp, sym))
          [] v = "word" -> keep(get_move_word(tp, sym))
          [] v = "SUS" -> keep(get_move_xy("SUS", tp, sym))
          [] v = "TicTacToe_5x5" -> keep(get_move_xy("TicTacToe_5x5", tp, sym))
          [] v = "Numerical" -> get_move_Numerical(tp, sym, used)
          [] v = "Pyramid" -> keep(get_move_Pyramid(tp, sym))
          [] v = "Inverse" -> keep(get_move_Inverse(s, tp, sym))
          [] v = "Ultimate" -> keep(get_move_Ultimate(tp, sym))
          [] v = "Diamond" -> keep(get_move_Diamond(tp, sym))
          [] v = "XO_4x4" -> keep(get_move_xy("XO_4x4", tp, sym))

----------------------------------------------------------------------------
(* What the user sees.  The output is the sequence of the pieces written   *)
(* to cout.                                                                *)

\* display_board_matrix that writes the mark of every cell
display_board_matrix_shows_marks(matrix) ==
    LET row(i) ==
            <<" " \o matrix[<<i, 0>>], " |", " " \o matrix[<<i, 1>>], " |",
              " " \o matrix[<<i, 2>>], "\n">>
            \o (IF i < 2 THEN <<"----------\n">> ELSE <<>>)
    IN  <<"\n", " 0   1   2 ", "\n">> \o row(0) \o row(1) \o row(2) \o <<"\n">>

\* Memory_UI::display_board_matrix on a 3x3 matrix: setw(2) of '#' for a
\* cell that is not '.', of '.' otherwise
display_board_matrix(matrix) ==
    LET cell(i, j) == IF matrix[<<i, j>>] # "." THEN " #" ELSE " ."
        row(i) ==
            <<cell(i, 0), " |", cell(i, 1), " |", cell(i, 2), "\n">>
            \o (IF i < 2 THEN <<"----------\n">> ELSE <<>>)
    IN  <<"\n", " 0   1   2 ", "\n">> \o row(0) \o row(1) \o row(2) \o <<"\n">>

----------------------------------------------------------------------------
(* GameManager::run.  One step is one pass of the loop: the UI is asked    *)
(* for a move, the board is handed the move and, if it took it, is asked   *)
(* whether the game is over.                                               *)

TypePairs == {<<a, b>> : a \in {"HUMAN", "COMPUTER"}, b \in {"HUMAN", "COMPUTER"}}

\* after_rejection passing the turn on
after_rejection_passes(i) == 1 - i

\* step (c): a refused move leaves the turn with the same player
after_rejection(i) == i

\* switch_player keeping the turn where it is
switch_player_stays(i) == i

\* step (f): the turn goes to the other player
switch_player(i) == 1 - i

\* run_ends never leaving the loop
run_ends_never(over) == FALSE

\* step (e): the loop ends when game_is_over answered true
run_ends(over) == over

\* announce without the test for a win
announce_without_win(w, l, d) == IF l THEN "lose" ELSE "draw"

\* step (e): win before lose before draw
announce(w, l, d) == IF w THEN "win" ELSE IF l THEN "lose" ELSE "draw"

\* what the program goes on from: the board object, whose turn it is, nums
ProgState(s, i, used) == [obj |-> s, player |-> i, nums |-> used]

InitGM ==
    /\ variant \in Variants
    /\ InitObj(variant)
    /\ InitFile(variant)
    /\ InitCall
    /\ deleted = <<>>
    /\ gm_pc = "get_move"
    /\ current_player_index = 0
    /\ ptype \in TypePairs
    /\ move = NoMove
    /\ gm_ret = "none"
    /\ asked = -1
    /\ movers = <<>>
    /\ rejected = 0
    /\ outcome = "none"
    /\ nums = <<>>
    /\ snap = <<>>

CurrentType == ptype[current_player_index + 1]
CurrentSymbol == setup_players(variant, current_player_index)

\* step (b), ui->get_move(p): every answer the UI can give, with the board
\* as the call leaves it.  Only XO_4x4_UI touches the board: it hands the
\* "from" cell to update_board before it asks for the "to" cell.
Answer(s, m, used, o) ==
    [s |-> s, move |-> m, nums |-> used, crash |-> o.ret = "crash",
     oob |-> o.oob,
     placed |-> IF o.ret = "true" /\ o.branch = "place" THEN 1 ELSE 0,
     undone |-> IF o.ret = "true" /\ o.branch = "erase" THEN 1 ELSE 0,
     calls |-> IF o.ret = "none" THEN 0 ELSE 1]

ui_get_move(v, s, tp, sym, used) ==
    IF v = "XO_4x4"
    THEN UNION {{Answer(o.s, to, used, o) : to \in get_move_xy("XO_4x4", tp, sym)} :
                  o \in UNION {update_board(v, s, from) :
                                 from \in get_move_xy("XO_4x4", tp, sym)}}
    ELSE {Answer(s, g.move, g.nums, Out(s, "none", FALSE, "none")) :
            g \in get_move(v, s, tp, sym, used)}

\* the bookkeeping of one turn: the UI's answer a, then update_board's
\* outcome o on the move of that answer
ApplyTurn(a, o) ==
    /\ SetObj(o.s)
    /\ oob' = (oob \/ a.oob \/ o.oob)
    /\ last_move' = a.move
    /\ ret' = o.ret
    /\ prev_n_moves' = a.s.n_moves
    /\ placed' = placed + a.placed
                    + (IF o.ret = "true" /\ o.branch = "place" THEN 1 ELSE 0)
    /\ undone' = undone + a.undone
                    + (IF o.ret = "true" /\ o.branch = "erase" THEN 1 ELSE 0)
    /\ calls' = calls + a.calls + 1
    /\ nums' = a.nums
    /\ asked' = current_player_index

Answers == ui_get_move(variant, Obj, CurrentType, CurrentSymbol, nums)

\* steps (b) and (c), update_board returned false
Turn_Rejected(answers, turns) ==
    /\ gm_pc = "get_move"
    /\ Len(movers) < turns
    /\ rejected < MaxRejects
    /\ \E a \in answers :
         /\ ~a.crash
         /\ \E o \in update_board(variant, a.s, a.move) :
              /\ o.ret = "false"
              /\ ApplyTurn(a, o)
    /\ gm_ret' = "false"
    /\ rejected' = rejected + 1
    /\ current_player_index' = after_rejection(current_player_index)
    /\ UNCHANGED <<variant, file, deleted, gm_pc, ptype, move, movers, outcome, snap>>

GM_Rejected == Turn_Rejected(Answers, MaxTurns)

\* steps (b) and (c), a call of update_board did not return
GM_Fault ==
    /\ gm_pc = "get_move"
    /\ Len(movers) < MaxTurns
    /\ \E a \in Answers :
         \/ /\ a.crash
            /\ ApplyTurn([a EXCEPT !.calls = 0], Out(a.s, "crash", a.oob, "none"))
         \/ /\ ~a.crash
            /\ \E o \in update_board(variant, a.s, a.move) :
                 /\ o.ret = "crash"
                 /\ ApplyTurn(a, o)
    /\ gm_pc' = "fault"
    /\ UNCHANGED <<variant, file, deleted, current_player_index, ptype, move, gm_ret,
                   movers, rejected, outcome, snap>>

\* steps (b) to (f), the move was accepted and the game goes on
Turn_Continue(answers, turns) ==
    /\ gm_pc = "get_move"
    /\ Len(movers) < turns
    /\ \E a \in answers :
         /\ ~a.crash
         /\ \E o \in update_board(variant, a.s, a.move) :
              /\ o.ret = "true"
              /\ ~run_ends(game_is_over(variant, o.s, CurrentSymbol))
              /\ LET t == after_is_win(variant, o.s)
                     next == switch_player(current_player_index)
                 IN  /\ ApplyTurn(a, [o EXCEPT !.s = t])
                     /\ current_player_index' = next
                     /\ snap' = IF movers = <<>>
                                THEN <<ProgState(t, next, a.nums)>>
                                ELSE snap
    /\ gm_ret' = "true"
    /\ movers' = Append(movers, current_player_index)
    /\ UNCHANGED <<variant, file, deleted, gm_pc, ptype, move, rejected, outcome>>

GM_Continue == Turn_Continue(Answers, MaxTurns)

\* steps (b) to (e), the move was accepted and ended the game: the outcome
\* is announced and run() returns
Turn_Finish(answers, turns) ==
    /\ gm_pc = "get_move"
    /\ Len(movers) < turns
    /\ \E a \in answers :
         /\ ~a.crash
         /\ \E o \in update_board(variant, a.s, a.move) :
              /\ o.ret = "true"
              /\ run_ends(game_is_over(variant, o.s, CurrentSymbol))
              /\ LET t1 == after_is_win(variant, o.s)
                     t2 == after_is_win(variant, t1)
                 IN  /\ ApplyTurn(a, [o EXCEPT !.s = t2])
                     /\ outcome' = announce(is_win(variant, t1, CurrentSymbol),
                                            is_lose(variant, t2, CurrentSymbol),
                                            is_draw(variant, t2, CurrentSymbol))
    /\ gm_ret' = "true"
    /\ movers' = Append(movers, current_player_index)
    /\ gm_pc' = "done"
    /\ UNCHANGED <<variant, file, deleted, current_player_index, ptype, move, rejected, snap>>

GM_Finish == Turn_Finish(Answers, MaxTurns)

Next ==
    \/ GM_Rejected
    \/ GM_Fault
    \/ GM_Continue
    \/ GM_Finish

Spec == InitGM /\ [][Next]_vars

----------------------------------------------------------------------------
(* Properties of GameManager::run, over Spec.                              *)

\* the symbol of the player whose turn it is, or who made the last move
\* when the run has ended
MoverSymbol == setup_players(variant, current_player_index)

\* C1: when update_board returns false, current_player_index stays as it is
\* and the loop goes back to get_move; the request that follows a refused
\* move is made for the same player as the one before.
C1_RejectionKeepsTurn ==
    [][/\ (rejected' = rejected + 1)
            => (current_player_index' = current_player_index /\ gm_pc' = "get_move")
       /\ (gm_ret = "false" /\ calls' # calls) => asked' = asked]_vars

\* C1 witness: player 1's move has just been refused and it is still player
\* 1's turn
C1_Witness_RefusedSecondPlayer ==
    /\ gm_ret = "false"
    /\ rejected = 1
    /\ Len(movers) = 1
    /\ asked = 1
    /\ current_player_index = 1
    /\ gm_pc = "get_move"

\* C2: the k-th accepted move is made by player (k - 1) mod 2, and while the
\* game goes on the turn is with player (number of accepted moves) mod 2,
\* however many moves were refused in between.
C2_AcceptedMovesAlternate ==
    /\ \A k \in 1 .. Len(movers) : movers[k] = (k - 1) % 2
    /\ gm_pc = "get_move" => current_player_index = Len(movers) % 2

\* C2 witness: three moves accepted, one refused on the way
C2_Witness_ThreeMoves ==
    /\ Len(movers) = 3
    /\ rejected = 1
    /\ current_player_index = 1

\* C3: when run() has ended after player p's move, the outcome announced is
\* a win if is_win(p), else a loss if is_lose(p), else a draw; a state in
\* which is_win(p) and is_draw(p) both hold is announced as a win.
C3_WinBeforeLoseBeforeDraw ==
    gm_pc = "done" =>
        /\ outcome = (IF is_win(variant, Obj, MoverSymbol) THEN "win"
                      ELSE IF is_lose(variant, Obj, MoverSymbol) THEN "lose"
                      ELSE "draw")
        /\ (is_win(variant, Obj, MoverSymbol) /\ is_draw(variant, Obj, MoverSymbol))
              => outcome = "win"

\* C3 witness: a run that ended with a win for the player who moved last
C3_Witness_Win ==
    /\ gm_pc = "done"
    /\ outcome = "win"
    /\ is_win(variant, Obj, MoverSymbol)

\* C4: once game_is_over(p) is true after an accepted move the run ends
\* there, and after that no get_move and no update_board call is made and
\* the board object does not change.
C4_TerminalIsAbsorbing ==
    [][/\ gm_pc = "done" => UNCHANGED <<boardVars, calls, asked, gm_pc>>
       /\ (Len(movers') = Len(movers) + 1
             /\ game_is_over(variant, Obj', MoverSymbol)) => gm_pc' = "done"]_vars

\* C4 witness: the run has ended on a board for which game_is_over holds
C4_Witness_Ended ==
    /\ gm_pc = "done"
    /\ Len(movers) > 0
    /\ game_is_over(variant, Obj, MoverSymbol)

\* C5: every match ends.  A run that comes back, after a later accepted
\* move, to the program state it was in after its first accepted move can
\* go round for ever, so no run does that.
C5_NoStateRecurs ==
    ~(/\ gm_pc = "get_move"
      /\ Len(movers) > 1
      /\ snap = <<ProgState(Obj, current_player_index, nums)>>)

----------------------------------------------------------------------------
(* A caller that sweeps a 3x3 board cell by cell, round and round, and     *)
(* proposes any symbol of the pool on the cell it has come to.             *)

DeepCalls == 10     \* update_board calls per run of the sweeping caller

\* the cell the k-th call of the sweep is aimed at (k counts from 0)
SweepCell(k) == <<(k % 9) \div 3, k % 3>>

InitDeep ==
    /\ variant \in {"Inf", "Inverse"}
    /\ InitObj(variant)
    /\ InitFile(variant)
    /\ InitCall
    /\ deleted = <<>>
    /\ GMOff

Sweep ==
    /\ calls < DeepCalls
    /\ ret # "crash"
    /\ \E sym \in SymbolPool :
         LET m == [x |-> SweepCell(calls)[1], y |-> SweepCell(calls)[2],
                   symbol |-> sym]
         IN  \E o \in update_board(variant, Obj, m) : Apply(m, o)
    /\ UNCHANGED <<variant, file, deleted, gmVars>>

NextDeep == Sweep

SpecDeep == InitDeep /\ [][NextDeep]_vars

----------------------------------------------------------------------------
(* Properties of update_board, over the calls of SpecBoard and SpecDeep.   *)

\* C6: a call of update_board that returns false leaves every grid cell and
\* n_moves as they were, and the same move offered again is refused again
\* (every outcome the repeated call can have is "false").
C6_RejectionIsStable ==
    [][(calls' = calls + 1 /\ ret' = "false")
         => /\ board' = board
            /\ n_moves' = n_moves
            /\ \A o \in update_board(variant, Obj', last_move') : o.ret = "false"]_vars

\* C7: a call of update_board with a row or column outside the grid returns
\* false, and nothing outside the grid is ever read or written, neither by
\* that call nor by a later one that uses what it recorded.
C7_OutOfRangeIsRejected ==
    /\ (calls > 0 /\ (\/ last_move.x < 0 \/ last_move.x >= Rows(variant)
                      \/ last_move.y < 0 \/ last_move.y >= Columns(variant)))
         => ret = "false"
    /\ ~oob

\* C8: right after construction n_moves is 0 and every cell of the grid holds
\* the board's empty marker.
C8_FreshBoardIsEmpty ==
    calls = 0 => (n_moves = 0 /\ (\A p \in Cells(variant) : board[p] = blank_symbol(variant)))

\* C9 as it is written: an accepted call changes n_moves by exactly one, by
\* -1 whenever the symbol of the move is the erase marker 0, by +1 whenever
\* it leaves the symbol of the move on the cell.
C9_AsWritten ==
    ret = "true" =>
        LET d == n_moves - prev_n_moves
            cell == board[<<last_move.x, last_move.y>>]
        IN  /\ d = 1 \/ d = -1
            /\ last_move.symbol = NUL => d = -1
            /\ (last_move.symbol # NUL
                  /\ cell \in {last_move.symbol, toupper(last_move.symbol)}) => d = 1

\* the accepted call just made took a cell off the board: the symbol was the
\* erase marker on a board that has the erase branch, or the 4x4 board
\* lifted a token (its member mark is 0 after the call)
Erased ==
    \/ (variant \notin ({"Inverse", "Ultimate", "Diamond"}) /\ last_move.symbol = NUL)
    \/ (variant = "XO_4x4" /\ mark = NUL)

\* C9, amended: every accepted call changes n_moves by exactly one: by -1
\* when the symbol is the erase marker 0 on a board that has the erase
\* branch, or when the 4x4 board lifts a token; by +1 in every other case,
\* which includes the symbol 0 on the Inverse, Ultimate and Diamond boards.
C9_AcceptedCallCountsOne ==
    ret = "true" =>
        n_moves - prev_n_moves = (IF Erased THEN -1 ELSE 1)

\* C9 witness: an undo has been accepted after a placement, and, on a board
\* without the erase branch, the symbol 0 has been placed
C9_Witness_Undo ==
    /\ ret = "true"
    /\ last_move.symbol = NUL
    /\ placed > 0
    /\ variant = "Memory"
    /\ n_moves = prev_n_moves - 1

\* C10: n_moves is the number of accepted placements minus the number of
\* accepted undos, and never exceeds rows * columns.
C10_CountWithinGrid ==
    /\ n_moves = placed - undone
    /\ n_moves <= Rows(variant) * Columns(variant)

----------------------------------------------------------------------------
(* A caller that fills a board cell by cell with the symbols of the two    *)
(* players: any of the two on each of the first FreeCalls cells, then the  *)
(* two in turn, until every cell has been aimed at once.  On the diamond   *)
(* board the symbol is free on every call and the cells aimed at are those *)
(* of DiamondOrder, so that every way of filling its thirteen cells is     *)
(* reached.                                                                *)

FreeCalls == 9      \* calls of the filling caller whose symbol is free

\* the cells aimed at on the diamond board: one cell outside the diamond,
\* which is refused, then the thirteen cells of the diamond row by row
DiamondOrder ==
    <<<<0, 0>>, <<0, 2>>, <<1, 1>>, <<1, 2>>, <<1, 3>>, <<2, 0>>, <<2, 1>>, <<2, 2>>,
      <<2, 3>>, <<2, 4>>, <<3, 1>>, <<3, 2>>, <<3, 3>>, <<4, 2>>>>

\* the cell the k-th call aims at (k counts from 0): row by row, and in a
\* row the last column before the last but one, so that a line can be
\* completed at its end (down a column) and in its middle (along a row).
\* On the board of Connect 4 every mark goes to the lowest free row of its
\* column, as CONNECT_UI::get_move aims it: columns 0 and 2, then 1 and 3,
\* then 4 and 6 are filled two at a time, then column 5, in an order that
\* players taking turns can fill all 42 cells in with no four in a line
FillCell(v, k) ==
    LET r == (k % (Rows(v) * Columns(v))) \div Columns(v)
        j == k % Columns(v)
        c == IF j = Columns(v) - 1 THEN Columns(v) - 2
             ELSE IF j = Columns(v) - 2 THEN Columns(v) - 1
             ELSE j
        pair == <<<<0, 2>>, <<1, 3>>, <<4, 6>>>>
        n == k % 42
        t == n % 12
    IN  IF v = "Diamond" THEN DiamondOrder[(k % Len(DiamondOrder)) + 1]
        ELSE IF v # "CONNECT" THEN <<r, c>>
        ELSE IF n >= 36 THEN <<5 - (n - 36), 5>>
        ELSE <<5 - (t \div 2),
               pair[(n \div 12) + 1][IF t % 4 \in {0, 3} THEN 1 ELSE 2]>>

FillSymbols(v, k) ==
    IF k < FreeCalls \/ v = "Diamond"
    THEN {setup_players(v, 0), setup_players(v, 1)}
    ELSE {setup_players(v, k % 2)}

InitFill ==
    /\ variant \in {"Memory", "SUS", "TicTacToe_5x5", "Inverse", "CONNECT", "Ultimate",
                    "Diamond"}
    /\ InitObj(variant)
    /\ InitFile(variant)
    /\ InitCall
    /\ deleted = <<>>
    /\ GMOff

Fill ==
    /\ calls < (IF variant = "Diamond" THEN Len(DiamondOrder)
                ELSE Rows(variant) * Columns(variant))
    /\ ret # "crash"
    /\ \E sym \in FillSymbols(variant, calls) :
         LET m == Mv(FillCell(variant, calls)[1], FillCell(variant, calls)[2], sym)
         IN  \E o \in update_board(variant, Obj, m) : Apply(m, o)
    /\ UNCHANGED <<variant, file, deleted, gmVars>>

NextFill == Fill

SpecFill == InitFill /\ [][NextFill]_vars

----------------------------------------------------------------------------
(* game_is_over against the three queries.                                 *)

\* the operands of the || expression each game_is_over returns, in order
game_is_over_order(v) ==
    CASE v = "XO_4x4" -> <<"is_win">>
      [] v \in {"SUS", "TicTacToe_5x5"} -> <<"is_win", "is_draw", "is_lose">>
      [] v \in {"Inverse", "Ultimate", "Diamond"} -> <<"is_win", "is_lose", "is_draw">>
      [] OTHER -> <<"is_win", "is_draw">>

\* one query called on the object s: its answer and the object it leaves
Query(v, s, sym, q) ==
    CASE q = "is_win" -> [value |-> is_win(v, s, sym), s |-> after_is_win(v, s)]
      [] q = "is_lose" -> [value |-> is_lose(v, s, sym), s |-> s]
      [] q = "is_draw" -> [value |-> is_draw(v, s, sym), s |-> s]

\* the queries a call of game_is_over makes, in the order it makes them:
\* || stops at the first operand that is true
RECURSIVE game_is_over_calls(_, _, _, _)
game_is_over_calls(v, s, sym, k) ==
    IF k > Len(game_is_over_order(v)) THEN <<>>
    ELSE LET q == game_is_over_order(v)[k]
             a == Query(v, s, sym, q)
         IN  IF a.value THEN <<q>>
             ELSE <<q>> \o game_is_over_calls(v, a.s, sym, k + 1)

\* the place of a query in the order win, lose, draw
Rank(q) == CASE q = "is_win" -> 1 [] q = "is_lose" -> 2 [] q = "is_draw" -> 3

PlayerSymbols(v) == {setup_players(v, 0), setup_players(v, 1)}

\* is_win(p) || is_lose(p) || is_draw(p), called one after the other
WinLoseDraw(v, s, sym) ==
    LET t == after_is_win(v, s)
    IN  is_win(v, s, sym) \/ is_lose(v, t, sym) \/ is_draw(v, t, sym)

\* C11 as it is written: for both players game_is_over answers what
\* is_win or is_lose or is_draw answer, and the queries it calls come in
\* the order win, lose, draw.
C11_AsWritten ==
    \A sym \in PlayerSymbols(variant) :
        LET c == game_is_over_calls(variant, Obj, sym, 1)
        IN  /\ game_is_over(variant, Obj, sym) = WinLoseDraw(variant, Obj, sym)
            /\ \A i, j \in 1 .. Len(c) : i < j => Rank(c[i]) < Rank(c[j])

\* C11, amended: for both players game_is_over answers what is_win or
\* is_lose or is_draw answer; is_win is always called first; is_lose comes
\* before is_draw on the Inverse, Ultimate and Diamond boards, after is_draw
\* on the SUS and 5x5 boards, and is not called at all on the other boards.
C11_GameIsOverIsDisjunction ==
    \A sym \in PlayerSymbols(variant) :
        LET c == game_is_over_calls(variant, Obj, sym, 1)
            at(q) == {i \in 1 .. Len(c) : c[i] = q}
        IN  /\ game_is_over(variant, Obj, sym) = WinLoseDraw(variant, Obj, sym)
            /\ game_is_over(variant, Obj, sym)
                 = Query(variant,
                         IF Len(c) = 1 THEN Obj ELSE after_is_win(variant, Obj),
                         sym, c[Len(c)]).value
            /\ c[1] = "is_win"
            /\ \A i \in at("is_lose"), j \in at("is_draw") :
                 IF variant \in {"SUS", "TicTacToe_5x5"} THEN j < i ELSE i < j
            /\ variant \notin {"SUS", "TicTacToe_5x5", "Inverse", "Ultimate", "Diamond"}
                 => at("is_lose") = {}

\* C11 witness: a full SUS board with the second player ahead, where
\* game_is_over has called is_win, is_draw and is_lose in this order
C11_Witness_DrawBeforeLose ==
    /\ variant = "SUS"
    /\ n_moves = 9
    /\ count1 < count2
    /\ game_is_over(variant, Obj, "S")
    /\ game_is_over_calls(variant, Obj, "S", 1) = <<"is_win", "is_draw", "is_lose">>

----------------------------------------------------------------------------
(* The queries as observers of the board.                                  *)

\* C12: is_win, is_lose and is_draw change nothing on the board object, and
\* is_lose and is_draw answer the same whether or not is_win has been
\* called before them, once or twice.
C12_QueriesArePure ==
    \A sym \in PlayerSymbols(variant) :
        LET t1 == Query(variant, Obj, sym, "is_win").s
            t2 == Query(variant, t1, sym, "is_win").s
        IN  /\ t1 = Obj
            /\ \A q \in {"is_win", "is_lose", "is_draw"} :
                 /\ Query(variant, Obj, sym, q).s = Obj
                 /\ Query(variant, t1, sym, q).value = Query(variant, Obj, sym, q).value
                 /\ Query(variant, t2, sym, q).value = Query(variant, Obj, sym, q).value

----------------------------------------------------------------------------
(* Who changes the board during a run of GameManager.                      *)

\* C13: get_move leaves the board object as it is, so in every pass of the
\* loop at most one update_board call is made and the board object after
\* the pass is what that one call, on the move get_move returned, makes of
\* the board object before the pass.
C13_SingleMutationPoint ==
    [][gm_pc = "get_move" =>
         /\ calls' <= calls + 1
         /\ \E o \in update_board(variant, Obj, last_move') :
              Obj' \in {o.s, after_is_win(variant, o.s),
                        after_is_win(variant, after_is_win(variant, o.s))}]_vars

----------------------------------------------------------------------------
(* The line-completion board (Memory_Board).                               *)

\* sym fills all three cells of a row, a column or a diagonal of grid b
FillsLine(b, sym) ==
    \/ \E i \in 0 .. 2 : \A j \in 0 .. 2 : b[<<i, j>>] = sym
    \/ \E j \in 0 .. 2 : \A i \in 0 .. 2 : b[<<i, j>>] = sym
    \/ \A i \in 0 .. 2 : b[<<i, i>>] = sym
    \/ \A i \in 0 .. 2 : b[<<i, 2 - i>>] = sym

\* C14: on Memory_Board, after accepted moves with the symbols 'X' and 'O',
\* is_win(p) holds exactly when p's symbol fills a row, a column or a
\* diagonal; on a full board where neither symbol does, is_draw holds for
\* both players and is_win and is_lose hold for neither.
C14_LineCompletion ==
    variant = "Memory" =>
        /\ \A sym \in {"X", "O"} : is_win(variant, Obj, sym) = FillsLine(board, sym)
        /\ ((\A p \in Cells("Memory") : board[p] # ".")
              /\ ~FillsLine(board, "X") /\ ~FillsLine(board, "O"))
            => \A sym \in {"X", "O"} :
                 /\ is_draw(variant, Obj, sym)
                 /\ ~is_win(variant, Obj, sym)
                 /\ ~is_lose(variant, Obj, sym)

\* C14 witness: a full Memory board without a line, after nine accepted
\* moves, that is a draw for 'X'
C14_Witness_FullNoLine ==
    /\ variant = "Memory"
    /\ placed = 9
    /\ \A p \in Cells("Memory") : board[p] \in {"X", "O"}
    /\ ~FillsLine(board, "X") /\ ~FillsLine(board, "O")
    /\ is_draw(variant, Obj, "X")

----------------------------------------------------------------------------
(* The misere board (InverseTicTacToe) in a match.                         *)

\* the player of the last accepted move, and the other one
LastMover == movers[Len(movers)]

\* C15: in a match on InverseTicTacToe, when the last accepted move has
\* given its mover three of the mover's symbol in a row, is_lose(mover) and
\* is_win(opponent) hold on that grid, is_win(mover) does not, and the match
\* has ended with a loss announced for the mover.
C15_MisereLoss ==
    (/\ variant = "Inverse"
     /\ Len(movers) > 0
     /\ FillsLine(board, setup_players(variant, LastMover)))
    => LET m == setup_players(variant, LastMover)
           opp == setup_players(variant, 1 - LastMover)
       IN  /\ is_lose(variant, Obj, m)
           /\ is_win(variant, Obj, opp)
           /\ ~is_win(variant, Obj, m)
           /\ gm_pc = "done"
           /\ outcome = "lose"

\* C15 witness: player 0 has put a third 'X' into a row and the match is over
C15_Witness_OwnLine ==
    /\ variant = "Inverse"
    /\ Len(movers) > 0
    /\ LastMover = 0
    /\ FillsLine(board, "X")
    /\ gm_pc = "done"
    /\ outcome = "lose"

----------------------------------------------------------------------------
(* The meta-board (UltimateTicTacToe).                                     *)

\* the 3x3 sub-board (br, bc) of the 9x9 grid b, as a 3x3 grid
SubGrid(b, br, bc) ==
    [p \in (0 .. 2) \X (0 .. 2) |-> b[<<3 * br + p[1], 3 * bc + p[2]>>]]

\* the sub-board a move goes into
SubBoardOf(m) == <<m.x \div 3, m.y \div 3>>

\* C16: an accepted move that completes three of its symbol in a row inside
\* a sub-board makes that symbol the sub-board's meta-mark; after any
\* accepted move is_win(p) holds exactly when p's symbol is the meta-mark of
\* three sub-boards in a row, column or diagonal of the meta-board, and
\* game_is_over holds only with such a line or with all nine meta-marks
\* set, so a completed sub-board does not by itself end the match.
C16_MetaBoard ==
    [][(variant = "Ultimate" /\ calls' = calls + 1 /\ ret' = "true") =>
         LET sb == SubBoardOf(last_move')
             sym == last_move'.symbol
         IN  /\ FillsLine(SubGrid(board', sb[1], sb[2]), sym) => winners'[sb] = sym
             /\ \A q \in PlayerSymbols(variant) :
                  /\ is_win(variant, Obj', q) = FillsLine(winners', q)
                  /\ game_is_over(variant, Obj', q)
                       => \/ FillsLine(winners', "X")
                          \/ FillsLine(winners', "O")
                          \/ \A p \in (0 .. 2) \X (0 .. 2) : winners'[p] # " "]_vars

\* C16 witness: the third sub-board of the top meta-row has just gone to
\* 'X', after the first and the second, and is_win holds for 'X'
C16_Witness_MetaRow ==
    /\ variant = "Ultimate"
    /\ ret = "true"
    /\ SubBoardOf(last_move) = <<0, 2>>
    /\ FillsLine(SubGrid(board, 0, 2), "X")
    /\ \A c \in 0 .. 2 : winners[<<0, c>>] = "X"
    /\ \A r \in 1 .. 2, c \in 0 .. 2 : winners[<<r, c>>] = " "
    /\ is_win(variant, Obj, "X")
    /\ ~is_win(variant, Obj, "O")


\* C17: update_board refuses every move into a sub-board whose meta-mark is
\* set, whether to a player's symbol or to 'D'; and once a meta-mark is set,
\* no call changes it or any of the nine cells of its sub-board.
C17_DecidedSubBoardIsClosed ==
    [][(variant = "Ultimate" /\ calls' = calls + 1) =>
         /\ (InGrid(variant, last_move'.x, last_move'.y)
               /\ winners[SubBoardOf(last_move')] # " ") => ret' = "false"
         /\ \A p \in (0 .. 2) \X (0 .. 2) :
              winners[p] # " " =>
                 /\ winners'[p] = winners[p]
                 /\ SubGrid(board', p[1], p[2]) = SubGrid(board, p[1], p[2])]_vars

\* C17 witness: a move to an empty cell of a sub-board that 'X' has won
\* has been refused, and a sub-board carries the draw mark
C17_Witness_RefusedInWonSubBoard ==
    /\ variant = "Ultimate"
    /\ ret = "false"
    /\ InGrid(variant, last_move.x, last_move.y)
    /\ board[<<last_move.x, last_move.y>>] = " "
    /\ winners[SubBoardOf(last_move)] = "X"
    /\ \E p \in (0 .. 2) \X (0 .. 2) : winners[p] = "D"

----------------------------------------------------------------------------
(* The computer player of the misere game.                                 *)

\* the empty cells of the grid in front of the player
EmptyCells == {p \in Cells(variant) : board[p] = blank_symbol(variant)}

\* sym put on the empty cell p gives sym three in a row
CompletesLine(b, sym, p) == FillsLine([b EXCEPT ![p] = sym], sym)

\* C18: when GameManager asks Inverse_XO_UI for the move of a COMPUTER
\* player, every move it can get goes to an empty cell if there is one, and
\* completes no line of the player's own symbol if there is an empty cell
\* that would complete none.
C18_ComputerAvoidsOwnLine ==
    (variant = "Inverse" /\ gm_pc = "get_move" /\ CurrentType = "COMPUTER") =>
        \A a \in Answers :
            LET p == <<a.move.x, a.move.y>>
            IN  /\ a.move.symbol = CurrentSymbol
                /\ EmptyCells # {} => p \in EmptyCells
                /\ (\E q \in EmptyCells : ~CompletesLine(board, CurrentSymbol, q))
                     => ~CompletesLine(board, CurrentSymbol, p)

\* C18 witness: it is a COMPUTER player's turn, with an empty cell that
\* would give the player three in a row and an empty cell that would not
C18_Witness_LosingCellOpen ==
    /\ variant = "Inverse"
    /\ gm_pc = "get_move"
    /\ CurrentType = "COMPUTER"
    /\ \E q \in EmptyCells : CompletesLine(board, CurrentSymbol, q)
    /\ \E q \in EmptyCells : ~CompletesLine(board, CurrentSymbol, q)
    /\ Answers # {}

----------------------------------------------------------------------------
(* Where a move comes from.                                                *)

\* get_move of the UI of board v executes "cin >>" for a player of type tp:
\* Ultimate_UI and Diamond_UI read two integers without looking at the
\* player's type, every other UI reads only in its HUMAN branch
reads_cin(v, tp) ==
    CASE v = "Ultimate" -> TRUE
      [] v = "Diamond" -> TRUE
      [] OTHER -> tp = "HUMAN"

\* C19: whenever GameManager asks for the move of a COMPUTER player, on
\* whichever board, get_move reads nothing from the input.
C19_ComputerReadsNoInput ==
    (gm_pc = "get_move" /\ CurrentType = "COMPUTER") =>
        ~reads_cin(variant, CurrentType)

----------------------------------------------------------------------------
(* From the menu to the first turn: the board is constructed, and the word *)
(* board reads its dictionary while it is.                                 *)

\* loadWords that returns when dic.txt did not open
loadWords_silent(opens) ==
    IF ~opens
    THEN [thrown |-> "", file |-> "failed", words |-> {}]
    ELSE [thrown |-> "", file |-> "closed", words |-> words]

\* word_XO_Board::loadWords: opens says whether file.open("dic.txt") succeeds;
\* thrown is the what() of the runtime_error, "" if none is thrown
loadWords(opens) ==
    IF ~opens
    THEN [thrown |-> "dic.txt not found!", file |-> "failed", words |-> {}]
    ELSE [thrown |-> "", file |-> "closed", words |-> words]

\* the constructor of the board: word_XO_Board() ends with loadWords() and
\* lets its exception through, the other boards open no file
Board_ctor(v, opens) ==
    IF v = "word"
    THEN loadWords(opens)
    ELSE [thrown |-> "", file |-> "none", words |-> {}]

InitStart ==
    /\ variant \in {"word", "Inf"}
    /\ InitObj(variant)
    /\ file = IF variant = "word" THEN "unopened" ELSE "none"
    /\ InitCall
    /\ deleted = <<>>
    /\ gm_pc = "menu"
    /\ current_player_index = 0
    /\ ptype \in TypePairs
    /\ move = NoMove
    /\ gm_ret = "none"
    /\ asked = -1
    /\ movers = <<>>
    /\ rejected = 0
    /\ outcome = "none"
    /\ nums = <<>>
    /\ snap = <<>>

\* menu: set_up(new word_XO_UI(), new word_XO_Board()).  Nothing catches the
\* exception of the constructor, so the process ends before set_up is called;
\* otherwise set_up builds the manager and run() starts its loop
Menu_SetUp ==
    /\ gm_pc = "menu"
    /\ \E opens \in BOOLEAN :
         LET r == Board_ctor(variant, opens)
         IN  /\ file' = r.file
             /\ IF r.thrown # ""
                THEN gm_pc' = "fault" /\ outcome' = r.thrown
                ELSE gm_pc' = "get_move" /\ outcome' = outcome
    /\ UNCHANGED <<variant, deleted, boardVars, callVars, current_player_index,
                   ptype, move, gm_ret, asked, movers, rejected, nums, snap>>

\* set_up after run() has returned: delete ui, delete board, then
\* delete players[0] and delete players[1], one delete per step
SetUp_Delete ==
    LET order == <<"ui", "board", "players[0]", "players[1]">>
    IN  /\ gm_pc = "done"
        /\ Len(deleted) < Len(order)
        /\ deleted' = Append(deleted, order[Len(deleted) + 1])
    /\ UNCHANGED <<variant, file, boardVars, callVars, gmVars>>

NextStart ==
    \/ Menu_SetUp
    \/ SetUp_Delete
    \/ GM_Rejected
    \/ GM_Fault
    \/ GM_Continue
    \/ GM_Finish

SpecStart == InitStart /\ [][NextStart]_vars

\* C20: a word board whose dic.txt did not open is never played on: the
\* process has ended with the error "dic.txt not found!", which is none of
\* the announcements of a match, no move was ever asked for and update_board
\* was never called; and a word board in the turn loop has read its file.
C20_NoDictionaryNoMatch ==
    /\ file = "failed" =>
         /\ gm_pc = "fault"
         /\ outcome = "dic.txt not found!"
         /\ outcome \notin {"none", "win", "lose", "draw"}
         /\ asked = -1
         /\ calls = 0
         /\ movers = <<>>
    /\ (variant = "word" /\ gm_pc \in {"get_move", "done"}) => file = "closed"

\* C20 witness: the word game was chosen and dic.txt did not open
C20_Witness_FileNotOpened ==
    /\ variant = "word"
    /\ file = "failed"
    /\ gm_pc = "fault"

----------------------------------------------------------------------------
(* The end of a match: what set_up deletes, and in which order.            *)

\* C21: the board is deleted only after both players have been deleted, so
\* no player exists while the board it points to is gone.
C21_BoardOutlivesPlayers ==
    (\E k \in 1 .. Len(deleted) : deleted[k] = "board") =>
        \A i \in {"players[0]", "players[1]"} :
            \E k \in 1 .. Len(deleted) : deleted[k] = i

----------------------------------------------------------------------------
(* The pyramid, the columns of Connect 4, the digits of the numerical game. *)

\* C22: on the Pyramid board a call of update_board aimed at a cell of the
\* 3x5 grid outside the pyramid (0,2); (1,1)..(1,3); (2,0)..(2,4) returns
\* false, and no such cell ever holds anything but the blank symbol.
C22_OnlyPyramidCells ==
    LET InPyramid(p) == \/ (p[1] = 0 /\ p[2] = 2)
                        \/ (p[1] = 1 /\ p[2] \in 1 .. 3)
                        \/ (p[1] = 2 /\ p[2] \in 0 .. 4)
        aimed == <<last_move.x, last_move.y>>
    IN  variant = "Pyramid" =>
          /\ (calls > 0 /\ aimed \in Cells("Pyramid") /\ ~InPyramid(aimed))
               => ret = "false"
          /\ \A p \in Cells("Pyramid") : ~InPyramid(p) => board[p] = "."


\* C23: on the Connect 4 board no occupied cell has an empty cell below it
\* in its column (row 5 is the bottom row).
C23_Gravity ==
    variant = "CONNECT" =>
        \A r \in 0 .. 4, c \in 0 .. 6 :
            board[<<r, c>>] # "." => board[<<r + 1, c>>] # "."


\* C24: when the 42nd piece has filled the Connect 4 board and nobody has
\* four in a row, is_draw is true and is_lose is false for the mover, and
\* the outcome announced in the order win, lose, draw is a draw.
C24_FullBoardIsADraw ==
    (variant = "CONNECT" /\ n_moves = 42 /\ placed = 42
        /\ \A sym \in {"X", "O"} : ~is_win(variant, Obj, sym)) =>
        /\ is_draw(variant, Obj, last_move.symbol)
        /\ ~is_lose(variant, Obj, last_move.symbol)
        /\ announce(is_win(variant, Obj, last_move.symbol),
                    is_lose(variant, Obj, last_move.symbol),
                    is_draw(variant, Obj, last_move.symbol)) = "draw"


\* C25: on the Numerical board update_board refuses a number that is on the
\* board already, whichever cell it is aimed at.
C25_UsedNumberIsRefused ==
    variant = "Numerical" =>
        \A p \in Cells(variant), q \in Cells(variant) :
            board[q] # "." =>
                \A o \in update_board(variant, Obj, Mv(p[1], p[2], board[q])) :
                    o.ret = "false"

----------------------------------------------------------------------------
(* Scores: the 5x5 board and SUS.                                          *)

\* C26: on the 5x5 board the match is over exactly when 24 marks are placed;
\* the result then announced for the last mover 'O' is a win, a draw or a
\* loss as 'O' has more, as many or fewer windows of three equal marks in a
\* row, column or diagonal than 'X', and the counts the board holds when the
\* result is announced are those numbers of windows.
C26_CountsDecide ==
    LET Windows(sym) ==
            Cardinality({w \in Cells(variant) \X {<<0, 1>>, <<1, 0>>, <<1, 1>>, <<1, -1>>} :
                \A k \in 0 .. 2 :
                    LET p == <<w[1][1] + k * w[2][1], w[1][2] + k * w[2][2]>>
                    IN  p \in Cells(variant) /\ board[p] = sym})
        sym == last_move.symbol
        t1 == after_is_win(variant, Obj)
        t2 == after_is_win(variant, t1)
        said == announce(is_win(variant, t1, sym), is_lose(variant, t2, sym),
                         is_draw(variant, t2, sym))
    IN  (variant = "TicTacToe_5x5" /\ placed = calls /\ calls > 0) =>
          /\ game_is_over(variant, Obj, sym) <=> n_moves = 24
          /\ (n_moves = 24 /\ sym = "O") =>
               /\ said = "win" <=> Windows("O") > Windows("X")
               /\ said = "draw" <=> Windows("O") = Windows("X")
               /\ said = "lose" <=> Windows("O") < Windows("X")
               /\ t2.cntX = Windows("X")
               /\ t2.cntO = Windows("O")


\* C27: in SUS, while marks are only placed, the match is over exactly when
\* nine marks are placed; count1 (count2) is the number of lines reading
\* S-U-S whose last cell to be filled holds an 'S' (a 'U'), that is, the
\* lines the player of that letter completed; and the result announced for
\* the last mover 'S' is a win, a draw or a loss as 'S' completed more, as
\* many or fewer lines than 'U'.
C27_ScoresDecide ==
    LET turn(p) == CHOOSE k \in 0 .. 8 : FillCell("SUS", k) = p
        last(l) == CHOOSE p \in {l[1], l[2], l[3]} :
                      \A q \in {l[1], l[2], l[3]} : turn(q) <= turn(p)
        Score(letter) ==
            Cardinality({l \in Lines3x3(0, 0) :
                /\ <<board[l[1]], board[l[2]], board[l[3]]>> = <<"S", "U", "S">>
                /\ board[last(l)] = letter})
        sym == last_move.symbol
        said == announce(is_win(variant, Obj, sym), is_lose(variant, Obj, sym),
                         is_draw(variant, Obj, sym))
    IN  (variant = "SUS" /\ calls > 0) =>
          /\ game_is_over(variant, Obj, sym) <=> n_moves = 9
          /\ n_moves = 9 <=> \A p \in Cells(variant) : board[p] # "."
          /\ count1 = Score("S")
          /\ count2 = Score("U")
          /\ (n_moves = 9 /\ sym = "S") =>
               /\ said = "win" <=> Score("S") > Score("U")
               /\ said = "draw" <=> Score("S") = Score("U")
               /\ said = "lose" <=> Score("S") < Score("U")

\* C27 witness: a finished SUS match in which each player completed a line
\* and 'S', who moved last, completed more
C27_Witness_BothScore ==
    /\ variant = "SUS"
    /\ n_moves = 9
    /\ last_move.symbol = "S"
    /\ count2 > 0
    /\ count1 > count2

----------------------------------------------------------------------------
(* Obstacles.                                                              *)

\* C28: in a match on the obstacles board every accepted placement turns
\* exactly two cells that were blank into obstacles and leaves every mark and
\* every obstacle as it was, and after it the board holds 2 * n_moves
\* obstacles and 36 - 3 * n_moves blank cells, which are the cells the list
\* coordinates still holds.
C28_TwoObstaclesPerMove ==
    [][(variant = "obs" /\ gm_ret' = "true" /\ calls' = calls + 1) =>
         LET new == {p \in Cells("obs") : board'[p] = "#" /\ board[p] # "#"}
             at == <<last_move'.x, last_move'.y>>
         IN  /\ Cardinality(new) = 2
             /\ \A p \in new : board[p] = "."
             /\ \A p \in Cells("obs") \ (new \cup {at}) : board'[p] = board[p]
             /\ board[at] = "." /\ board'[at] \notin {".", "#"}
             /\ Cardinality({p \in Cells("obs") : board'[p] = "#"}) = 2 * n_moves'
             /\ Cardinality({p \in Cells("obs") : board'[p] = "."}) = 36 - 3 * n_moves'
             /\ Len(coordinates') = 36 - 3 * n_moves'
             /\ \A p \in Cells("obs") :
                   board'[p] = "." <=> \E k \in 1 .. Len(coordinates') : coordinates'[k] = p]_vars

\* C28 witness: an obstacles match after its second accepted placement
C28_Witness_FourObstacles ==
    /\ variant = "obs"
    /\ gm_pc = "get_move"
    /\ n_moves = 2
    /\ gm_ret = "true"
    /\ Cardinality({p \in Cells("obs") : board[p] = "#"}) = 4


(* C29: on the diamond board a player has won exactly when their symbol
   fills a line of three consecutive diamond cells and a line of four
   consecutive diamond cells that run in different directions, and the
   board is a draw exactly when all thirteen diamond cells are filled
   and neither 'X' nor 'O' has such a pair of lines. *)
C29_ThreeAndFourDecide ==
    LET Diamond == {p \in Cells("Diamond") :
                       (IF p[1] < 2 THEN 2 - p[1] ELSE p[1] - 2)
                       + (IF p[2] < 2 THEN 2 - p[2] ELSE p[2] - 2) <= 2}
        Steps == {<<0, 1>>, <<1, 0>>, <<1, 1>>, <<1, -1>>}
        Run(sym, p, d, len) ==
            \A k \in 0..(len - 1) :
                /\ <<p[1] + k * d[1], p[2] + k * d[2]>> \in Diamond
                /\ board[<<p[1] + k * d[1], p[2] + k * d[2]>>] = sym
        Directions(sym, len) ==
            {d \in Steps : \E p \in Diamond : Run(sym, p, d, len)}
        Wins(sym) ==
            \E d3 \in Directions(sym, 3), d4 \in Directions(sym, 4) : d3 # d4
        WinsX == Wins("X")
        WinsO == Wins("O")
        Filled == {p \in Diamond : board[p] # " "}
    IN  variant = "Diamond" =>
            /\ is_win("Diamond", Obj, "X") <=> WinsX
            /\ is_win("Diamond", Obj, "O") <=> WinsO
            /\ \A sym \in {"X", "O"} :
                   is_draw("Diamond", Obj, sym) <=>
                       (Cardinality(Filled) = 13 /\ ~WinsX /\ ~WinsO)

C29_Witness_WinAndDraw ==
    /\ variant = "Diamond"
    /\ placed = 13
    /\ is_win("Diamond", Obj, "X")
    /\ ~is_win("Diamond", Obj, "O")
    /\ ~is_draw("Diamond", Obj, "X")


(* C30: on the word board is_win is true exactly when some completely
   filled row, column or diagonal spells, forwards or backwards, a word
   of the dictionary file, whatever the case the file has the word in. *)
C30_DictionaryWordWins ==
    LET Lines == {<<<<i, 0>>, <<i, 1>>, <<i, 2>>>> : i \in 0..2}
                 \cup {<<<<0, i>>, <<1, i>>, <<2, i>>>> : i \in 0..2}
                 \cup {<<<<0, 0>>, <<1, 1>>, <<2, 2>>>>, <<<<0, 2>>, <<1, 1>>, <<2, 0>>>>}
        Upper(w) == [k \in 1..3 |-> toupper(w[k])]
        Spells(l) ==
            /\ \A k \in 1..3 : board[l[k]] # "."
            /\ \E w \in words :
                   \/ Upper(w) = <<board[l[1]], board[l[2]], board[l[3]]>>
                   \/ Upper(w) = <<board[l[3]], board[l[2]], board[l[1]]>>
    IN  variant = "word" =>
            \A sym \in Letters :
                is_win("word", Obj, sym) <=> (\E l \in Lines : Spells(l))


----------------------------------------------------------------------------
(* A match of the obstacles game between two humans who name empty cells   *)
(* of the bottom row and of the last column, long enough for a line of     *)
(* four.  A refused move changes nothing on the board and is left out.     *)

LongTurns == 7      \* accepted moves per run of the long match

\* the cells the two humans name: four cells of row 5 and four of column 5
ObsCells == {<<5, c>> : c \in 2..5} \cup {<<r, 5>> : r \in 2..5}

LongAnswers ==
    {Answer(Obj, Mv(p[1], p[2], CurrentSymbol), nums, Out(Obj, "none", FALSE, "none")) :
        p \in ObsCells}

InitObs ==
    /\ InitGM
    /\ variant = "obs"
    /\ ptype = <<"HUMAN", "HUMAN">>

Obs_Continue == Turn_Continue(LongAnswers, LongTurns)

Obs_Finish == Turn_Finish(LongAnswers, LongTurns)

NextObs ==
    \/ Obs_Continue
    \/ Obs_Finish

SpecObs == InitObs /\ [][NextObs]_vars

(* C31: in a match of the obstacles game, after every accepted move the
   win check through the cell just played agrees with a scan of the whole
   board: is_win is true for the mover exactly when the mover's symbol
   holds four consecutive cells of some row, column or diagonal. *)
C31_IncrementalIsFullScan ==
    LET sym == setup_players("obs", asked)
        Steps == {<<0, 1>>, <<1, 0>>, <<1, 1>>, <<1, -1>>}
        Four(p, d) ==
            \A k \in 0..3 :
                /\ <<p[1] + k * d[1], p[2] + k * d[2]>> \in Cells("obs")
                /\ board[<<p[1] + k * d[1], p[2] + k * d[2]>>] = sym
        Scan == \E p \in Cells("obs"), d \in Steps : Four(p, d)
    IN  (variant = "obs" /\ gm_ret = "true" /\ asked \in {0, 1}) =>
            (is_win("obs", Obj, sym) <=> Scan)

C31_Witness_FourInColumn ==
    /\ variant = "obs"
    /\ gm_ret = "true"
    /\ gm_pc = "done"
    /\ is_win("obs", Obj, setup_players("obs", asked))
    /\ last_col_play = 5
    /\ \A r \in 2..5 : board[<<r, 5>>] = board[<<5, 5>>]


(* C32: on the Infinity board the cell blanked for expiry is the one that
   holds the oldest mark still on the board, and a move that update_board
   refuses leaves the expiry history as it was.  In a match the first
   expiry comes with the fourth accepted move, and the oldest mark is
   then the mark of the first move. *)
C32_ExpiryTakesOldest ==
    [][variant = "Inf" =>
         /\ (rejected' = rejected + 1) => (Coordinates' = Coordinates)
         /\ (n_moves = 3 /\ n_moves' = 4 /\ gm_pc' # "fault") =>
                \A p \in Cells("Inf") :
                    (snap[1].obj.board[p] # ".") => (board'[p] = ".")]_vars


(* C33: on the Infinity board n_moves is the number of marks on the board,
   and is_draw is true only when none of the nine cells is empty. *)
C33_CountIsMarksOnBoard ==
    LET Marks == {p \in Cells("Inf") : board[p] # "."}
    IN  (variant = "Inf" /\ ret # "crash" /\ ~oob) =>
            /\ n_moves = Cardinality(Marks)
            /\ \A sym \in {"X", "O"} :
                   is_draw("Inf", Obj, sym) => (Cardinality(Marks) = 9)


(* C34: in the 4x4 sliding game tokens are moved, never created or
   destroyed: every turn the loop completes leaves exactly four 'X' and
   four 'O' on the board, with the mover's token on the cell of the move. *)
C34_TokensAreOnlyMoved ==
    [][(variant = "XO_4x4" /\ movers' # movers) =>
         LET Tokens(sym) == Cardinality({p \in Cells("XO_4x4") : board'[p] = sym})
         IN  /\ Tokens("X") = 4
             /\ Tokens("O") = 4
             /\ board'[<<last_move'.x, last_move'.y>>] = last_move'.symbol]_vars

(* C35: in the numerical game a number enters nums only when update_board
   accepted the move that carries it, and while the match goes on the
   player to move has a number of their own parity that is not in nums. *)
C35_RefusedNumberStaysFree ==
    [][variant = "Numerical" =>
         /\ (rejected' = rejected + 1) => (nums' = nums)
         /\ (gm_pc' = "get_move") =>
                \E d \in 1..9 :
                    /\ d % 2 = (IF setup_players("Numerical", current_player_index') = "X"
                                THEN 0 ELSE 1)
                    /\ Find(nums', Digit[d]) = 0]_vars


(* C36: the ultimate game never deadlocks: while game_is_over is false for
   a player, update_board accepts a move of that player at some empty
   cell of some undecided sub-board, and no more than 81 moves are ever
   accepted. *)
C36_NoDeadlock ==
    variant = "Ultimate" =>
        /\ \A sym \in {"X", "O"} :
               ~game_is_over("Ultimate", Obj, sym) =>
                   \E p \in Cells("Ultimate") :
                       /\ board[p] = " "
                       /\ winners[<<p[1] \div 3, p[2] \div 3>>] = " "
                       /\ \E o \in update_board("Ultimate", Obj, Mv(p[1], p[2], sym)) :
                              o.ret = "true"
        /\ placed <= 81
        /\ n_moves = placed

C36_Witness_SixDecidedAndOpen ==
    /\ variant = "Ultimate"
    /\ Cardinality({q \in (0..2) \X (0..2) : winners[q] # " "}) >= 6
    /\ \E q \in (0..2) \X (0..2) : winners[q] = "D"
    /\ ~game_is_over("Ultimate", Obj, "X")
    /\ ~game_is_over("Ultimate", Obj, "O")


(* C37: the meta-board agrees with the 9x9 grid: after every call a
   sub-board's meta-mark is a player's symbol exactly when the sub-board
   holds a complete row, column or diagonal of that symbol, 'D' exactly
   when the sub-board is full with no complete line, and empty otherwise;
   a meta-mark, once written, is never written again. *)
C37_MetaBoardAgreesWithGrid ==
    [][variant = "Ultimate" =>
         \A q \in (0 .. 2) \X (0 .. 2) :
             LET g == SubGrid(board', q[1], q[2])
                 full == \A p \in (0 .. 2) \X (0 .. 2) : g[p] # " "
                 line == FillsLine(g, "X") \/ FillsLine(g, "O")
             IN  /\ \A s \in {"X", "O"} : (winners'[q] = s) <=> FillsLine(g, s)
                 /\ (winners'[q] = "D") <=> (full /\ ~line)
                 /\ (winners'[q] = " ") <=> (~full /\ ~line)
                 /\ (winners[q] # " ") => (winners'[q] = winners[q])]_vars

C37_Witness_WonAndDrawn ==
    /\ variant = "Ultimate"
    /\ \E q \in (0 .. 2) \X (0 .. 2) : winners[q] = "D"
    /\ \E q \in (0 .. 2) \X (0 .. 2) :
           /\ winners[q] = "X"
           /\ \E p \in (0 .. 2) \X (0 .. 2) : SubGrid(board, q[1], q[2])[p] = " "
    /\ \E q \in (0 .. 2) \X (0 .. 2) : winners[q] = "O"
    /\ \E q \in (0 .. 2) \X (0 .. 2) : winners[q] = " "


(* C38: the rendering of the Memory board hides the marks: whatever
   symbols, 'X' or 'O', stand on the occupied cells of the board,
   display_board_matrix writes the same output. *)
C38_DisplayHidesMarks ==
    LET occupied == {p \in Cells("Memory") : board[p] # "."}
        Relabelled(f) == [p \in Cells("Memory") |-> IF p \in occupied THEN f[p] ELSE "."]
    IN  variant = "Memory" =>
            \A f \in [occupied -> {"X", "O"}] :
                display_board_matrix(Relabelled(f)) = display_board_matrix(board)

C38_Witness_BothMarksShown ==
    /\ variant = "Memory"
    /\ \E p \in Cells("Memory") : board[p] = "X"
    /\ \E p \in Cells("Memory") : board[p] = "O"
    /\ \E p \in Cells("Memory") : board[p] = "."
    /\ \E k \in 1..Len(display_board_matrix(board)) :
           display_board_matrix(board)[k] = " #"


(* C39: a dictionary that cannot be opened ends the word match only: after
   the failed construction of the board the program is back at the menu
   or ends normally, and is never brought down by the failure. *)
C39_LoadFailureEndsMatchOnly ==
    (variant = "word" /\ file = "failed") => gm_pc \in {"menu", "done"}

====
